---- MODULE Spec2Model ----
(***************************************************************************)
(* Model of the document ingestion pipeline of rag_backend:                *)
(*   DocumentStore.process_and_store_document  (backend/src/documents.py)  *)
(*   VectorDatabase.add_documents / get_document_chunks (database.py)      *)
(*   upload_file / process_document_async      (web.py)                    *)
(* Every upload runs in a thread of its own; a step of the model is one    *)
(* access of an ingestion to the shared state (the processing-state map,   *)
(* the state objects, the collection), with the local computation that     *)
(* precedes it.                                                            *)
(***************************************************************************)
EXTENDS Integers, Sequences, FiniteSets, TLC

\* Number of uploads (threads) over the life of the process.
MaxUploads == 2
\* Largest number of pages (paragraphs) of an uploaded document.
MaxPages == 2

\* Largest number of candidates in a batch handed to the search engine.
MaxBatch == 2

Workers == 1..MaxUploads
Files == {"a.pdf", "b.docx"}

None == "None"

VARIABLES
    pc,                 \* position of each ingestion thread
    file,               \* filename each thread was started with
    wstate,             \* the ProcessingState object each ingestion created
    processing_states,  \* DocumentStore._processing_states: filename -> object
    chunks,             \* local: chunks built by process_document
    existing_ids,       \* local: ids found by the lookup before a delete
    stored_chunks,      \* local: chunks read back by the verification
    exc,                \* local: message of the exception being handled
    collection,         \* the ChromaDB collection, in insertion order
    calls,              \* per ingestion in progress: its embedding calls and
                        \* its writes to the collection, in order
    relevance_cache,    \* SearchEngine._relevance_cache: key -> score
    scored,             \* history: the (normalized query, text) pairs for
                        \* which the scorer gave a score that was taken
    phase,              \* the caller of the search engine: idle | returned
    method,             \* the method called last
    query,              \* its query argument
    candidates,         \* its candidates: the store's answer, or search_results
    found,              \* what perform_similarity_search returned
    results,            \* what the method called last returned
    error,              \* the message of the exception it raised, or None
    scorer_calls,       \* the batches of texts it sent to the scorer, each
                        \* with the scorer's answer
    settings,           \* settings_manager: the sections of DynamicSettings
    args,               \* the other arguments of the method called last
    collab_calls,       \* the calls it made to the embedding collaborator
                        \* and to the store, in order
    threads,            \* the rerank_results calls of concurrent requests:
                        \* position and locals of each
    balanced,           \* what _balance_results returned
    contexts            \* the contexts handed to the answer collaborator

\* The state of the ingestion pipeline and the state of the search engine.
ivars == <<pc, file, wstate, processing_states, chunks, existing_ids,
           stored_chunks, exc, collection, calls>>
svars == <<relevance_cache, scored, phase, method, query, candidates, found,
           results, error, scorer_calls>>
\* The settings, and the state of the calls of the application layer and of
\* concurrent requests.
avars == <<settings, args, collab_calls, threads, balanced, contexts>>
vars == <<ivars, svars, avars>>

----------------------------------------------------------------------------
(* Data *)

\* ProcessingState(status='processing'): the dataclass defaults.
ProcessingState(status) ==
    [status |-> status, error |-> None, source_name |-> None,
     chunk_count |-> 0, total_chunks |-> 0]

\* No object yet (the thread has not reached process_and_store_document).
NoState == ProcessingState("none")

\* get_processing_state(filename): the object the map holds, or None.
get_processing_state(f) ==
    IF processing_states[f] = 0 THEN NoState ELSE wstate[processing_states[f]]

\* A document as the extractors see it: which pages (paragraphs) hold text.
Masks == UNION {[1..n -> BOOLEAN] : n \in 0..MaxPages}

Ext(f) == IF f = "a.pdf" THEN "pdf" ELSE "docx"

\* _extract_pdf_text: pages without text are skipped; a section keeps its
\* page number as chunk_index and the page count as total_chunks.
_extract_pdf_text(mask) ==
    LET pages == [i \in 1..Len(mask) |->
                    [text |-> i, chunk_index |-> i - 1, total_chunks |-> Len(mask)]]
    IN  SelectSeq(pages, LAMBDA s : mask[s.text])

\* _extract_docx_text: empty paragraphs are dropped first, then the indices
\* are assigned over the non-empty ones (a text is named by its rank there).
_extract_docx_text(mask) ==
    LET paras == [i \in 1..Len(mask) |-> i]
        non_empty_sections == SelectSeq(paras, LAMBDA p : mask[p])
    IN  [i \in 1..Len(non_empty_sections) |->
            [text |-> i, chunk_index |-> i - 1,
             total_chunks |-> Len(non_empty_sections)]]

\* process_document: one chunk per section, a fresh uuid4 each (the pair of
\* the ingestion and the position), the section's metadata as it is.
process_document(w, f, mask) ==
    LET sections == IF Ext(f) = "pdf" THEN _extract_pdf_text(mask)
                    ELSE _extract_docx_text(mask)
    IN  [i \in 1..Len(sections) |->
            [id |-> <<w, i>>, text |-> sections[i].text, source_name |-> f,
             chunk_index |-> sections[i].chunk_index,
             total_chunks |-> sections[i].total_chunks]]

----------------------------------------------------------------------------
(* The collection *)

Ids(seq) == {seq[i].id : i \in 1..Len(seq)}

\* collection.get(where={"source_name": {"$eq": source_name}})
GetWhere(source_name) ==
    SelectSeq(collection, LAMBDA c : c.source_name = source_name)

\* list.sort(key=chunk_index): stable insertion sort.
RECURSIVE InsertSorted(_, _)
InsertSorted(c, seq) ==
    IF seq = <<>> THEN <<c>>
    ELSE IF seq[Len(seq)].chunk_index <= c.chunk_index THEN Append(seq, c)
    ELSE Append(InsertSorted(c, SubSeq(seq, 1, Len(seq) - 1)), seq[Len(seq)])

RECURSIVE SortByIndex(_)
SortByIndex(seq) ==
    IF seq = <<>> THEN <<>>
    ELSE InsertSorted(seq[Len(seq)], SortByIndex(SubSeq(seq, 1, Len(seq) - 1)))

\* VectorDatabase.get_document_chunks
get_document_chunks(source_name) == SortByIndex(GetWhere(source_name))

\* Mutant: the delete is accepted and removes nothing.
DeleteIds_Ignored(ids) == collection

\* collection.delete(ids=...): ids no longer present are ignored.
DeleteIds(ids) == SelectSeq(collection, LAMBDA c : c.id \notin ids)

----------------------------------------------------------------------------
(* Initial state: no upload yet, an empty collection *)

\* The requests that call the search engine at the same time.
Threads == {"t1", "t2"}

\* A request that is not inside rerank_results.
IdleThread ==
    [pc |-> "idle", query |-> <<>>, texts |-> <<>>, i |-> 0,
     uncached_indices |-> <<>>, new_scores |-> <<>>]

\* LLMSettings(): temperature in tenths, max_tokens.
LLMSettings == [temperature |-> 3, max_tokens |-> 1000]

\* CacheSettings(): CACHE_ENABLED, RESPONSE_CACHE_SIZE.
CacheSettings == [enabled |-> TRUE, size |-> 1000]

\* No call yet, or a call without further arguments.
NoArgs == [n_results |-> [is_int |-> TRUE, value |-> 0], source_names |-> <<>>,
           title |-> None, query_given |-> FALSE]

Init ==
    /\ pc = [w \in Workers |-> "idle"]
    /\ file = [w \in Workers |-> None]
    /\ wstate = [w \in Workers |-> NoState]
    /\ processing_states = [f \in Files |-> 0]
    /\ chunks = [w \in Workers |-> <<>>]
    /\ existing_ids = [w \in Workers |-> {}]
    /\ stored_chunks = [w \in Workers |-> <<>>]
    /\ exc = [w \in Workers |-> None]
    /\ collection = <<>>
    /\ calls = [w \in Workers |-> <<>>]
    /\ relevance_cache = <<>>
    /\ scored = {}
    /\ phase = "idle"
    /\ method = None
    /\ query = <<>>
    /\ candidates = [ids |-> <<>>, distances |-> <<>>, metadatas |-> <<>>]
    /\ found = candidates
    /\ results = <<>>
    /\ error = None
    /\ scorer_calls = <<>>
    /\ settings = [llm |-> LLMSettings, cache |-> CacheSettings]
    /\ args = NoArgs
    /\ collab_calls = <<>>
    /\ threads = [t \in Threads |-> IdleThread]
    /\ balanced = <<>>
    /\ contexts = <<>>

Terminal == {"returned", "raised"}
\* The except clause of process_and_store_document.
Handler == {"set_error", "set_error_msg", "publish_error"}

\* An ingestion of f is in progress: its thread was started and
\* process_and_store_document has neither returned nor raised.
Active(w) == pc[w] \notin ({"idle"} \cup Terminal)
Busy(f) == \E w \in Workers : Active(w) /\ file[w] = f

\* A step of an ingestion: it touches nothing of the search engine.
Goto(w, to) == pc' = [pc EXCEPT ![w] = to] /\ UNCHANGED <<svars, avars>>

\* process_and_store_document returns or raises: its frame is gone.
Leave(w, to) ==
    /\ Goto(w, to)
    /\ chunks' = [chunks EXCEPT ![w] = <<>>]
    /\ existing_ids' = [existing_ids EXCEPT ![w] = {}]
    /\ stored_chunks' = [stored_chunks EXCEPT ![w] = <<>>]
    /\ exc' = [exc EXCEPT ![w] = None]
    /\ calls' = [calls EXCEPT ![w] = <<>>]

\* A call of a collaborator that gave back k vectors.
Answered(w, op, texts, k) ==
    calls' = [calls EXCEPT ![w] =
                Append(@, [op |-> op, texts |-> texts, vectors |-> k])]

\* A call that gives back no vectors (a write of the store) or raises.
Called(w, op, texts) == Answered(w, op, texts, -1)

\* An exception leaves the try block: control goes to the except clause.
\* The handler reads only filename, state and the exception: the other
\* locals of the try block are dead from here on.
Raise(w, msg) ==
    /\ exc' = [exc EXCEPT ![w] = msg]
    /\ chunks' = [chunks EXCEPT ![w] = <<>>]
    /\ existing_ids' = [existing_ids EXCEPT ![w] = {}]
    /\ stored_chunks' = [stored_chunks EXCEPT ![w] = <<>>]
    /\ Goto(w, "set_error")

\* self._processing_states[filename] = state. The object the entry held
\* before is unreachable once its own ingestion has ended.
_update_processing_state(w, state) ==
    LET old == processing_states[file[w]] IN
    /\ processing_states' = [processing_states EXCEPT ![file[w]] = w]
    /\ wstate' = [v \in Workers |->
            IF v = w THEN state
            ELSE IF v = old /\ pc[v] \in Terminal THEN NoState
            ELSE wstate[v]]

----------------------------------------------------------------------------
(* web.upload_file: save the file and start a thread on it *)

upload_file(f) ==
    /\ \E w \in Workers :
        /\ pc[w] = "idle"
        /\ \A v \in Workers : v < w => pc[v] # "idle"
        /\ Goto(w, "begin")
        /\ file' = [file EXCEPT ![w] = f]
    /\ UNCHANGED <<wstate, processing_states, chunks, existing_ids,
                   stored_chunks, exc, collection, calls>>

\* The caller-level rule of serialising the ingestions of one filename.
upload_file_serial(f) == ~Busy(f) /\ upload_file(f)

----------------------------------------------------------------------------
(* DocumentStore.process_and_store_document, step by step *)

\* Mutant: the fresh state object is not put into the map.
Begin_NoUpdate(w) ==
    /\ pc[w] = "begin"
    /\ wstate' = [wstate EXCEPT ![w] = ProcessingState("processing")]
    /\ Goto(w, "extract")
    /\ UNCHANGED <<file, processing_states, chunks, existing_ids, stored_chunks,
                   exc, collection, calls>>

\* state = ProcessingState(status='processing'); _update_processing_state
Begin(w) ==
    /\ pc[w] = "begin"
    /\ _update_processing_state(w, ProcessingState("processing"))
    /\ Goto(w, "extract")
    /\ UNCHANGED <<file, chunks, existing_ids, stored_chunks, exc, collection, calls>>

\* Mutant: the empty chunk list is let through.
NoChunks_Unchecked(cs) == FALSE

\* if not chunks
NoChunks(cs) == cs = <<>>

\* 1. process_document; no chunks is an error; else the counts and the
\* source name are set on the state object and the map is updated.
Extract(w) ==
    /\ pc[w] = "extract"
    /\ \/ /\ Raise(w, "Error processing document")
          /\ UNCHANGED <<wstate, processing_states>>
       \/ \E mask \in Masks :
            LET cs == process_document(w, file[w], mask) IN
            IF NoChunks(cs)
            THEN /\ Raise(w, "No chunks generated from document")
                 /\ UNCHANGED <<wstate, processing_states>>
            ELSE /\ chunks' = [chunks EXCEPT ![w] = cs]
                 /\ _update_processing_state(w,
                        [wstate[w] EXCEPT !.chunk_count = Len(cs),
                                          !.total_chunks = Len(cs),
                                          !.source_name = file[w]])
                 /\ Goto(w, "embed")
                 /\ UNCHANGED <<existing_ids, stored_chunks, exc>>
    /\ UNCHANGED <<file, collection, calls>>

\* 3. documents[i] pairs chunks[i] with embeddings[i]: an IndexError when the
\* batch of k vectors is shorter than the chunk list.
\* Mutant: the chunks are zipped with the vectors, the surplus is dropped.
BuildDocuments_Zip(cs, k) == "ok"

BuildDocuments(cs, k) == IF k < Len(cs) THEN "IndexError" ELSE "ok"

\* Mutant: one embedding call per chunk.
Embed_PerChunk(w) ==
    /\ pc[w] = "embed"
    /\ calls' = [calls EXCEPT ![w] =
            @ \o [i \in 1..Len(chunks[w]) |->
                    [op |-> "embed", texts |-> <<chunks[w][i].text>>]]]
    /\ Goto(w, "lookup")
    /\ UNCHANGED <<file, wstate, processing_states, chunks, existing_ids,
                   stored_chunks, exc, collection>>

\* 2. generate_embeddings(texts), one call with every text, and 3.
Embed(w) ==
    /\ pc[w] = "embed"
    /\ LET texts == [i \in 1..Len(chunks[w]) |-> chunks[w][i].text] IN
       \/ /\ Called(w, "embed", texts)
          /\ Raise(w, "embedding failure")
       \/ \E k \in {Len(chunks[w]) - 1, Len(chunks[w])} :
            /\ Answered(w, "embed", texts, k)
            /\ IF BuildDocuments(chunks[w], k) = "IndexError"
               THEN Raise(w, "index out of range")
               ELSE /\ Goto(w, "lookup")
                    /\ UNCHANGED <<chunks, existing_ids, stored_chunks, exc>>
    /\ UNCHANGED <<file, wstate, processing_states, collection>>

\* Mutant: the lookup of step 4 is not filtered by source_name.
Lookup_AllSources(w) ==
    /\ pc[w] = "lookup"
    /\ existing_ids' = [existing_ids EXCEPT ![w] = Ids(collection)]
    /\ Goto(w, IF collection # <<>> THEN "delete" ELSE "add_lookup")
    /\ UNCHANGED <<file, wstate, processing_states, chunks, stored_chunks, exc,
                   collection, calls>>

\* 4. existing_chunks = self.db.get_document_chunks(source_name)
Lookup(w) ==
    /\ pc[w] = "lookup"
    /\ \/ Raise(w, "store failure")
       \/ LET existing_chunks == get_document_chunks(file[w]) IN
            /\ existing_ids' = [existing_ids EXCEPT ![w] = Ids(existing_chunks)]
            /\ Goto(w, IF existing_chunks # <<>> THEN "delete" ELSE "add_lookup")
            /\ UNCHANGED <<chunks, stored_chunks, exc>>
    /\ UNCHANGED <<file, wstate, processing_states, collection, calls>>

\* 4. self.db.collection.delete(ids=existing_ids)
Delete(w) ==
    /\ pc[w] = "delete"
    /\ Called(w, "delete", <<>>)
    /\ \/ Raise(w, "store failure") /\ UNCHANGED collection
       \/ /\ collection' = DeleteIds(existing_ids[w])
          /\ existing_ids' = [existing_ids EXCEPT ![w] = {}]
          /\ Goto(w, "add_lookup")
          /\ UNCHANGED <<chunks, stored_chunks, exc>>
    /\ UNCHANGED <<file, wstate, processing_states>>

\* VectorDatabase._validate_chunk_consistency: one total_chunks per source.
_validate_chunk_consistency(documents) ==
    \A i \in 1..Len(documents) : documents[i].total_chunks = documents[1].total_chunks

\* 5. add_documents: validation, then _get_existing_doc_ids, which answers
\* [] when the store raises.
AddLookup(w) ==
    /\ pc[w] = "add_lookup"
    /\ IF ~_validate_chunk_consistency(chunks[w])
       THEN Raise(w, "Inconsistent total_chunks values")
       ELSE /\ \E ids \in {Ids(GetWhere(file[w])), {}} :
                /\ existing_ids' = [existing_ids EXCEPT ![w] = ids]
                /\ Goto(w, IF ids # {} THEN "add_delete" ELSE "add_insert")
            /\ UNCHANGED <<chunks, stored_chunks, exc>>
    /\ UNCHANGED <<file, wstate, processing_states, collection, calls>>

\* add_documents: self.collection.delete(ids=existing_ids)
AddDelete(w) ==
    /\ pc[w] = "add_delete"
    /\ Called(w, "delete", <<>>)
    /\ \/ Raise(w, "store failure") /\ UNCHANGED collection
       \/ /\ collection' = DeleteIds(existing_ids[w])
          /\ existing_ids' = [existing_ids EXCEPT ![w] = {}]
          /\ Goto(w, "add_insert")
          /\ UNCHANGED <<chunks, stored_chunks, exc>>
    /\ UNCHANGED <<file, wstate, processing_states>>

\* add_documents: self.collection.add(...), all records of the source in one
\* call; the listing that follows it may raise as well.
AddInsert(w) ==
    /\ pc[w] = "add_insert"
    /\ Called(w, "add", <<>>)
    /\ \/ Raise(w, "store failure") /\ UNCHANGED collection
       \/ /\ collection' = collection \o chunks[w]
          /\ \/ /\ Goto(w, "verify")
                /\ UNCHANGED <<chunks, existing_ids, stored_chunks, exc>>
             \/ Raise(w, "store failure")
    /\ UNCHANGED <<file, wstate, processing_states>>

\* Mutant: the total_chunks of the chunks read back is not compared.
VerifyStorage_NoTotalCheck(stored, n) ==
    IF stored = <<>> THEN "no chunks found"
    ELSE IF Len(stored) # n THEN "chunk count mismatch"
    ELSE IF [i \in 1..Len(stored) |-> stored[i].chunk_index] # [i \in 1..n |-> i - 1]
         THEN "inconsistent chunk indices"
    ELSE "ok"

\* 6. the checks on the chunks read back, in the order of the code.
VerifyStorage(stored, n) ==
    IF stored = <<>> THEN "no chunks found"
    ELSE IF Len(stored) # n THEN "chunk count mismatch"
    ELSE IF [i \in 1..Len(stored) |-> stored[i].chunk_index] # [i \in 1..n |-> i - 1]
         THEN "inconsistent chunk indices"
    ELSE IF \E i \in 1..Len(stored) : stored[i].total_chunks # n
         THEN "total_chunks mismatch"
    ELSE "ok"

\* 6. stored_chunks = self.db.get_document_chunks(source_name) and the checks
Verify(w) ==
    /\ pc[w] = "verify"
    /\ \/ Raise(w, "store failure")
       \/ LET stored == get_document_chunks(file[w])
              verdict == VerifyStorage(stored, Len(chunks[w])) IN
            IF verdict = "ok"
            THEN /\ stored_chunks' = [stored_chunks EXCEPT ![w] = stored]
                 /\ Goto(w, "set_completed")
                 /\ UNCHANGED <<chunks, existing_ids, exc>>
            ELSE Raise(w, verdict)
    /\ UNCHANGED <<file, wstate, processing_states, collection, calls>>

\* state.status = 'completed'
SetCompleted(w) ==
    /\ pc[w] = "set_completed"
    /\ wstate' = [wstate EXCEPT ![w].status = "completed"]
    /\ Goto(w, "publish_completed")
    /\ UNCHANGED <<file, processing_states, chunks, existing_ids, stored_chunks,
                   exc, collection, calls>>

\* self._update_processing_state(filename, state); return state
PublishCompleted(w) ==
    /\ pc[w] = "publish_completed"
    /\ _update_processing_state(w, wstate[w])
    /\ Leave(w, "returned")
    /\ UNCHANGED <<file, collection>>

\* Mutant: the except clause removes what the ingestion wrote.
SetError_Rollback(w) ==
    /\ pc[w] = "set_error"
    /\ wstate' = [wstate EXCEPT ![w].status = "error"]
    /\ collection' = SelectSeq(collection, LAMBDA c : c.source_name # file[w])
    /\ Goto(w, "set_error_msg")
    /\ UNCHANGED <<file, processing_states, chunks, existing_ids, stored_chunks,
                   exc, calls>>

\* Mutant: the except clause records the message and leaves the status.
SetError_StatusKept(w) ==
    /\ pc[w] = "set_error"
    /\ Goto(w, "set_error_msg")
    /\ UNCHANGED <<file, wstate, processing_states, chunks, existing_ids,
                   stored_chunks, exc, collection, calls>>

\* except Exception as e: state.status = 'error'
SetError(w) ==
    /\ pc[w] = "set_error"
    /\ wstate' = [wstate EXCEPT ![w].status = "error"]
    /\ Goto(w, "set_error_msg")
    /\ UNCHANGED <<file, processing_states, chunks, existing_ids, stored_chunks,
                   exc, collection, calls>>

\* state.error = error_msg
SetErrorMsg(w) ==
    /\ pc[w] = "set_error_msg"
    /\ wstate' = [wstate EXCEPT ![w].error = exc[w]]
    /\ Goto(w, "publish_error")
    /\ UNCHANGED <<file, processing_states, chunks, existing_ids, stored_chunks,
                   exc, collection, calls>>

\* self._update_processing_state(filename, state); raise
PublishError(w) ==
    /\ pc[w] = "publish_error"
    /\ _update_processing_state(w, wstate[w])
    /\ Leave(w, "raised")
    /\ UNCHANGED <<file, collection>>

Step(w) ==
    \/ Begin(w)
    \/ Extract(w)
    \/ Embed(w)
    \/ Lookup(w)
    \/ Delete(w)
    \/ AddLookup(w)
    \/ AddDelete(w)
    \/ AddInsert(w)
    \/ Verify(w)
    \/ SetCompleted(w)
    \/ PublishCompleted(w)
    \/ SetError(w)
    \/ SetErrorMsg(w)
    \/ PublishError(w)

\* Uploads as web.py starts them: a thread per request, whatever is running.
Next ==
    \/ \E f \in Files : upload_file(f)
    \/ \E w \in Workers : Step(w)

Spec == Init /\ [][Next]_vars

\* Uploads of one filename serialised by the caller. With no other ingestion
\* of the source running, the lookup of add_documents finds nothing left after
\* the delete of step 4, so that its own delete is never taken: AddDelete is
\* no step of this specification (AddDeleteUnreachable).
StepSerial(w) ==
    \/ Begin(w)
    \/ Extract(w)
    \/ Embed(w)
    \/ Lookup(w)
    \/ Delete(w)
    \/ AddLookup(w)
    \/ AddInsert(w)
    \/ Verify(w)
    \/ SetCompleted(w)
    \/ PublishCompleted(w)
    \/ SetError(w)
    \/ SetErrorMsg(w)
    \/ PublishError(w)

NextSerial ==
    \/ \E f \in Files : upload_file_serial(f)
    \/ \E w \in Workers : StepSerial(w)

SpecSerial == Init /\ [][NextSerial]_vars

\* Under SpecSerial no ingestion reaches the delete of add_documents.
AddDeleteUnreachable == \A w \in Workers : pc[w] # "add_delete"

----------------------------------------------------------------------------
(* Properties of the ingestion state machine *)

Status(f) == get_processing_state(f).status

Indices(seq) == [i \in 1..Len(seq) |-> seq[i].chunk_index]
Range0(n) == [i \in 1..n |-> i - 1]

\* The ids ingestion w gave to its n chunks.
OwnIds(w, n) == {<<w, i>> : i \in 1..n}

NoChunksMsg == "No chunks generated from document"
MismatchMsgs == {"no chunks found", "chunk count mismatch",
                 "inconsistent chunk indices", "total_chunks mismatch"}

\* w takes a step of its own.
Steps(w) == pc'[w] # pc[w]

\* C1: with the ingestions of a filename run one at a time, the status seen
\* through get_processing_state(filename) changes only processing->completed,
\* processing->error, or from none/completed/error to processing in the first
\* step of a new ingestion of that filename.
C1_StateTransitions ==
    [][\A f \in Files :
        LET s == Status(f)
            t == Status(f)'
        IN  t # s =>
              \/ s = "processing" /\ t \in {"completed", "error"}
              \/ /\ s \in {"none", "completed", "error"}
                 /\ t = "processing"
                 /\ \E w \in Workers :
                        file[w] = f /\ pc[w] = "begin" /\ pc'[w] = "extract"]_vars

\* Two ingestions of one filename have ended, one after the other.
C1_Witness ==
    \E w, v \in Workers :
        /\ w < v /\ file[w] = file[v]
        /\ pc[w] \in Terminal /\ pc[v] \in Terminal
        /\ Status(file[v]) \in {"completed", "error"}

\* C2: the chunks stored for a source are at every moment all from one
\* ingestion (the first component of a chunk id names the ingestion).
C2_NoMixedChunks ==
    \A i, j \in 1..Len(collection) :
        collection[i].source_name = collection[j].source_name
            => collection[i].id[1] = collection[j].id[1]

\* C3: no two ingestions of the same filename are in progress at once.
C3_NoConcurrentSameSource ==
    \A w, v \in Workers :
        (w # v /\ Active(w) /\ Active(v)) => file[w] # file[v]

\* C4: an ingestion that has inserted its chunks leaves the source holding
\* exactly these chunks, whatever an earlier ingestion of the source stored;
\* once it has returned the source holds exactly its chunk_count chunks.
C4_ReplaceLeavesSecond ==
    \A w \in Workers :
        /\ pc[w] \in {"verify", "set_completed", "publish_completed"}
              => GetWhere(file[w]) = chunks[w]
        /\ (pc[w] = "returned" /\ processing_states[file[w]] = w)
              => /\ Ids(GetWhere(file[w])) = OwnIds(w, wstate[w].chunk_count)
                 /\ Len(GetWhere(file[w])) = wstate[w].chunk_count

\* A re-ingestion: it deleted the chunks of an earlier ingestion and stored
\* its own.
C4_Witness ==
    \E w \in Workers :
        /\ pc[w] = "publish_completed"
        /\ \E k \in 1..Len(calls[w]) : calls[w][k].op = "delete"
        /\ GetWhere(file[w]) = chunks[w]

\* C5: every source with stored chunks has the chunk_index values
\* 0..total_chunks-1, each once, and one total_chunks on all its chunks.
C5_ChunkContiguity ==
    \A f \in Files :
        LET stored == get_document_chunks(f) IN
        stored # <<>> =>
            /\ \A i \in 1..Len(stored) : stored[i].total_chunks = stored[1].total_chunks
            /\ Indices(stored) = Range0(stored[1].total_chunks)

\* C6: status completed is set only after the verification, and on chunks
\* read back that number n, have the indices 0..n-1 and carry total_chunks n.
C6_CompletedImpliesVerified ==
    \A w \in Workers :
        wstate[w].status = "completed" =>
            /\ pc[w] \in {"publish_completed", "returned"}
            /\ pc[w] = "publish_completed" =>
                LET n == Len(chunks[w]) IN
                /\ wstate[w].chunk_count = n
                /\ Len(stored_chunks[w]) = n
                /\ Indices(stored_chunks[w]) = Range0(n)
                /\ \A i \in 1..n : /\ stored_chunks[w][i].total_chunks = n
                                   /\ stored_chunks[w][i].source_name = file[w]

C6_Witness ==
    \E w \in Workers :
        /\ pc[w] = "publish_completed"
        /\ wstate[w].status = "completed"
        /\ Len(stored_chunks[w]) = 2

\* C7: a mismatch found by the verification raises with the message of the
\* mismatch; no step of the except clause changes the collection, the chunks
\* just inserted stay in it, nothing else is stored for the source, and the
\* state published is error with that message.
C7_MismatchLeavesChunks ==
    [][\A w \in Workers :
        /\ (pc[w] = "verify" /\ Steps(w)) =>
              /\ collection' = collection
              /\ pc'[w] = "set_error" =>
                    exc'[w] \in MismatchMsgs \cup {"store failure"}
        /\ (pc[w] \in Handler /\ Steps(w)) => collection' = collection
        /\ (pc'[w] \in Handler /\ exc'[w] \in MismatchMsgs) =>
              Ids(GetWhere(file[w]))' = OwnIds(w, wstate[w].chunk_count)
        /\ (pc[w] = "publish_error" /\ Steps(w) /\ exc[w] \in MismatchMsgs) =>
              /\ Status(file[w])' = "error"
              /\ get_processing_state(file[w])'.error = exc[w]
              /\ pc'[w] = "raised"]_vars

\* An ingestion has raised on a mismatch and its chunks are in the store.
C7_Witness ==
    \E w \in Workers :
        /\ pc[w] = "raised"
        /\ processing_states[file[w]] = w
        /\ wstate[w].error \in MismatchMsgs
        /\ Ids(GetWhere(file[w])) = OwnIds(w, wstate[w].chunk_count)

\* C8: process_and_store_document returns only with the filename's state at
\* completed and raises only with it at error; inside the try block the
\* state object of the ingestion is at processing.
C8_EndsTerminal ==
    [][\A w \in Workers :
        /\ (pc[w] \notin Terminal /\ pc'[w] \in Terminal) =>
              /\ pc'[w] = "returned" => Status(file[w])' = "completed"
              /\ pc'[w] = "raised" => Status(file[w])' = "error"
        /\ (Active(w) /\ pc[w] \notin Handler
                /\ pc[w] \notin {"begin", "publish_completed"})
              => wstate[w].status = "processing"]_vars

\* One ingestion has returned and another has raised.
C8_Witness ==
    \E w, v \in Workers : pc[w] = "returned" /\ pc[v] = "raised"

\* C9: an extraction that yields no chunk raises at once: the ingestion never
\* goes on to the embedding with an empty chunk list, it has called neither
\* the embedding nor a write of the store when it raises or later, and it
\* ends with the state error and the message.
C9_NoChunksFailsFast ==
    [][\A w \in Workers :
        /\ (pc[w] = "extract" /\ pc'[w] = "embed") => chunks'[w] # <<>>
        /\ (pc[w] = "extract" /\ pc'[w] = "set_error") =>
              exc'[w] \in {NoChunksMsg, "Error processing document"}
        /\ exc'[w] = NoChunksMsg => (pc'[w] \in Handler /\ calls'[w] = <<>>)
        /\ (exc[w] = NoChunksMsg /\ pc'[w] = "raised") =>
              /\ Status(file[w])' = "error"
              /\ get_processing_state(file[w])'.error = NoChunksMsg]_vars

C9_Witness ==
    \E w \in Workers :
        /\ pc[w] = "raised"
        /\ processing_states[file[w]] = w
        /\ wstate[w].error = NoChunksMsg

EmbedCalls(w) == {k \in 1..Len(calls[w]) : calls[w][k].op = "embed"}

\* C10: an ingestion that has chunks makes one embedding call, before any
\* delete or insert, with the texts of all its chunks in chunk order.
C10_EmbedOnceFirst ==
    \A w \in Workers :
        /\ EmbedCalls(w) \subseteq {1}
        /\ (Active(w) /\ pc[w] \notin Handler \cup {"begin", "extract", "embed"})
              => /\ EmbedCalls(w) = {1}
                 /\ calls[w][1].texts = [i \in 1..Len(chunks[w]) |-> chunks[w][i].text]
                 /\ Len(calls[w][1].texts) = wstate[w].chunk_count
        /\ (pc[w] \in Handler
                /\ exc[w] \notin {NoChunksMsg, "Error processing document"})
              => EmbedCalls(w) = {1}
        /\ \A k \in EmbedCalls(w) :
              \A i, j \in 1..Len(calls[w][k].texts) :
                  i < j => calls[w][k].texts[i] < calls[w][k].texts[j]

\* A re-ingestion of two chunks: one embedding call, a delete, an insert.
C10_Witness ==
    \E w \in Workers :
        /\ pc[w] = "publish_completed"
        /\ Len(chunks[w]) = 2
        /\ [k \in 1..Len(calls[w]) |-> calls[w][k].op] = <<"embed", "delete", "add">>

\* C11: the chunks an ingestion builds in step 1 carry the chunk_index values
\* 0..n-1 in document order and total_chunks = n, n the number of chunks.
C11_ChunksRenumbered ==
    \A w \in Workers :
        LET n == Len(chunks[w]) IN
        /\ Indices(chunks[w]) = Range0(n)
        /\ \A i \in 1..n : chunks[w][i].total_chunks = n

\* The embedding collaborator gave ingestion w fewer vectors than texts.
ShortBatch(w) ==
    \E k \in EmbedCalls(w) :
        /\ calls[w][k].vectors >= 0
        /\ calls[w][k].vectors < Len(calls[w][k].texts)

\* C12: an ingestion whose embedding call gave back fewer vectors than chunks
\* is in its except clause from then on, is never at completed, has written
\* nothing to the store, and ends raising with the state error.
C12_ShortBatchIsError ==
    [][\A w \in Workers :
        /\ ShortBatch(w) =>
              /\ pc[w] \in Handler
              /\ wstate[w].status # "completed"
              /\ \A k \in 1..Len(calls[w]) : calls[w][k].op = "embed"
              /\ \A i \in 1..Len(collection) : collection[i].id[1] # w
        /\ (ShortBatch(w) /\ pc'[w] \in Terminal) =>
              /\ pc'[w] = "raised"
              /\ Status(file[w])' = "error"
              /\ get_processing_state(file[w])'.error = "index out of range"]_vars

C12_Witness ==
    \E w \in Workers :
        /\ ShortBatch(w)
        /\ pc[w] = "publish_error"
        /\ wstate[w].status = "error"
        /\ Len(calls[w][1].texts) = 2

\* C13: a step of an ingestion changes neither the chunks stored for another
\* source nor the state record of another filename; while it is between its
\* insert and its return the chunks stored for its source are its own, and
\* when it has ended its source holds what it alone wrote: its chunks if it
\* inserted them, and what was there before it if it did not.
C13_SourcesIndependent ==
    [][\A w \in Workers :
        /\ (Active(w) /\ Steps(w)) =>
              /\ \A f \in Files \ {file[w]} :
                    /\ GetWhere(f)' = GetWhere(f)
                    /\ processing_states'[f] = processing_states[f]
                    /\ get_processing_state(f)' = get_processing_state(f)
              /\ \A v \in Workers \ {w} :
                    (file[v] # file[w]) => wstate'[v] = wstate[v]
        /\ pc[w] \in {"verify", "set_completed", "publish_completed"} =>
              get_document_chunks(file[w]) = SortByIndex(chunks[w])
        /\ (Active(w) /\ Steps(w) /\ pc[w] # "add_insert") =>
              Ids(GetWhere(file[w]))' \subseteq Ids(GetWhere(file[w]))
        /\ (pc[w] = "add_insert" /\ Steps(w)) =>
              Ids(GetWhere(file[w]))' \subseteq OwnIds(w, Len(chunks[w]))]_vars

\* Ingestions of two sources in progress at once, both past their insert.
C13_Witness ==
    \E w, v \in Workers :
        /\ file[w] # file[v]
        /\ pc[w] = "publish_completed"
        /\ pc[v] \in {"verify", "set_completed", "publish_completed"}
        /\ Len(collection) = Len(chunks[w]) + Len(chunks[v])

----------------------------------------------------------------------------
(* SearchEngine (rag_backend/search.py). A string is a sequence of          *)
(* characters; a distance is a cosine distance, a whole number of 0..2; a   *)
(* score is a whole number.                                                 *)

\* The texts of the chunks the store holds, by chunk id: two of them differ
\* only in surrounding white space.
StoreTexts == <<  <<"t">>,  <<" ", "t">>,  <<"u">>  >>
ChunkIds == DOMAIN StoreTexts

\* The queries callers send: two that differ in case and white space only.
Queries == { <<"q">>, <<" ", "Q">> }

\* Cosine distances.
Distances == 0..2

\* The scores the scorer writes, one a line.
Scores == {2, 8}

\* str.strip()
RECURSIVE LStrip(_)
LStrip(str) ==
    IF str # <<>> /\ Head(str) = " " THEN LStrip(Tail(str)) ELSE str

RECURSIVE RStrip(_)
RStrip(str) ==
    IF str # <<>> /\ str[Len(str)] = " "
    THEN RStrip(SubSeq(str, 1, Len(str) - 1)) ELSE str

Strip(str) == RStrip(LStrip(str))

\* str.lower()
Lower(str) ==
    [i \in 1..Len(str) |->
        CASE str[i] = "Q" -> "q"
          [] str[i] = "R" -> "r"
          [] str[i] = "T" -> "t"
          [] str[i] = "U" -> "u"
          [] OTHER -> str[i]]

\* Mutant: the key is built from the query as it was typed.
_get_cache_key_RawQuery(q, text) == q \o <<"|||">> \o Strip(text)

\* _get_cache_key: f"{query.strip().lower()}|||{text.strip()}"
_get_cache_key(q, text) == Lower(Strip(q)) \o <<"|||">> \o Strip(text)

EmptyResults == [ids |-> <<>>, distances |-> <<>>, metadatas |-> <<>>]

\* The orders in which up to n distinct chunks can be listed.
IdLists(n) ==
    {l \in UNION {[1..k -> ChunkIds] : k \in 0..n} :
        \A i, j \in 1..Len(l) : i # j => l[i] # l[j]}

\* The candidate lists of up to n candidates a store can answer with (and a
\* caller can hand over as search_results): parallel lists of ids, distances
\* and metadatas.
CandidateLists(n) ==
    UNION {{[ids |-> l, distances |-> d,
             metadatas |-> [i \in 1..Len(l) |-> [text |-> StoreTexts[l[i]]]]] :
                d \in [1..Len(l) -> Distances]} : l \in IdLists(n)}

\* vector_db.query: it raises, or answers with up to n_results candidates.
StoreAnswers(n) ==
    {[raises |-> TRUE, results |-> EmptyResults]}
        \cup {[raises |-> FALSE, results |-> c] : c \in CandidateLists(n)}

\* zip(distances, ids, metadatas)
Zip(distances, ids, metadatas) ==
    [k \in 1..Len(ids) |->
        [distance |-> distances[k], id |-> ids[k], metadata |-> metadatas[k]]]

\* Mutant: the sort key is the distance alone.
DistanceIdLeq_DistanceOnly(x, y) == x.distance <= y.distance

\* key=lambda x: (x[0], x[1]): the order of the keys (distance, id).
DistanceIdLeq(x, y) ==
    \/ x.distance < y.distance
    \/ x.distance = y.distance /\ x.id <= y.id

\* sorted(..., key=...): stable.
RECURSIVE InsertByDistanceId(_, _)
InsertByDistanceId(x, seq) ==
    IF seq = <<>> THEN <<x>>
    ELSE IF DistanceIdLeq(seq[Len(seq)], x) THEN Append(seq, x)
    ELSE Append(InsertByDistanceId(x, SubSeq(seq, 1, Len(seq) - 1)), seq[Len(seq)])

RECURSIVE SortByDistanceId(_)
SortByDistanceId(seq) ==
    IF seq = <<>> THEN <<>>
    ELSE InsertByDistanceId(seq[Len(seq)],
                            SortByDistanceId(SubSeq(seq, 1, Len(seq) - 1)))

\* perform_similarity_search(query_embedding, n_results, ...): what it
\* returns (found) or the message it raises with (error).
perform_similarity_search(n_results, answer) ==
    IF n_results < 1
    THEN [error |-> "n_results must be a positive integer", found |-> EmptyResults]
    ELSE IF answer.raises
    THEN [error |-> "Database query failed", found |-> EmptyResults]
    ELSE IF Len(answer.results.ids) = 0
    THEN [error |-> None, found |-> EmptyResults]
    ELSE LET sorted_data == SortByDistanceId(Zip(answer.results.distances,
                                                 answer.results.ids,
                                                 answer.results.metadatas))
         IN  [error |-> None,
              found |-> [ids |-> [k \in 1..Len(sorted_data) |-> sorted_data[k].id],
                         distances |-> [k \in 1..Len(sorted_data) |->
                                            sorted_data[k].distance],
                         metadatas |-> [k \in 1..Len(sorted_data) |->
                                            sorted_data[k].metadata]]]

\* self._relevance_cache[cache_key] = score
PutCache(cache, key, score) ==
    [k \in DOMAIN cache \cup {key} |-> IF k = key THEN score ELSE cache[k]]

\* Mutant: the cache is not looked at, every candidate counts as uncached.
UncachedIndices_All(cache, q, texts) == [i \in 1..Len(texts) |-> i]

\* The loop over texts: the indices whose key the cache does not hold.
UncachedIndices(cache, q, texts) ==
    SelectSeq([i \in 1..Len(texts) |-> i],
              LAMBDA i : _get_cache_key(q, texts[i].text) \notin DOMAIN cache)

\* What chatbot.generate_response does with a batch of k texts: it raises,
\* it answers with text float() does not parse, or with a number of scores.
ScorerOutcomes(k) ==
    IF k = 0 THEN {[kind |-> "not called", scores |-> <<>>]}
    ELSE {[kind |-> "raises", scores |-> <<>>],
          [kind |-> "unparsable", scores |-> <<>>]}
         \cup {[kind |-> "scores", scores |-> sc] :
                 sc \in UNION {[1..m -> Scores] : m \in {k - 1, k, k + 1} \ {0}}}

\* new_scores = [float(score) ...]; the check of their number.
ParseScores(outcome, k) ==
    IF outcome.kind = "raises" THEN "Exception"
    ELSE IF outcome.kind = "unparsable" THEN "ValueError"
    ELSE IF Len(outcome.scores) # k THEN "ValueError"
    ELSE "ok"

\* The loop over new_scores: the cache after the writes of scores 1..j.
RECURSIVE UpdateCache(_, _, _, _, _, _)
UpdateCache(cache, q, texts, uncached_indices, new_scores, j) ==
    IF j = 0 THEN cache
    ELSE PutCache(UpdateCache(cache, q, texts, uncached_indices, new_scores, j - 1),
                  _get_cache_key(q, texts[uncached_indices[j]].text),
                  new_scores[j])

\* Mutant: when the answer of the scorer is not taken, the fallback is
\* cached (as the score 0).
CacheAfter_FallbackCached(cache, q, texts, uncached_indices, outcome) ==
    UpdateCache(cache, q, texts, uncached_indices,
                [j \in 1..Len(uncached_indices) |->
                    IF ParseScores(outcome, Len(uncached_indices)) = "ok"
                    THEN outcome.scores[j] ELSE 0],
                Len(uncached_indices))

\* The cache after the try block: the loop over new_scores is reached only
\* when the scores were parsed and counted; the except clauses write nothing.
CacheAfter(cache, q, texts, uncached_indices, outcome) ==
    IF ParseScores(outcome, Len(uncached_indices)) = "ok"
    THEN UpdateCache(cache, q, texts, uncached_indices, outcome.scores,
                     Len(uncached_indices))
    ELSE cache

\* The place of candidate i among the uncached ones.
UncachedPosition(uncached_indices, i) ==
    CHOOSE j \in 1..Len(uncached_indices) : uncached_indices[j] = i

\* relevance_scores[idx] = 1 - distances[idx]
Fallback(distance) == 1 - distance

\* max(distances)
Max(seq) == CHOOSE m \in {seq[i] : i \in 1..Len(seq)} :
                \A i \in 1..Len(seq) : seq[i] <= m

\* Mutant: the weights of similarity and relevance are exchanged.
CombinedScore_WeightsSwapped(distance, max_distance, relevance) ==
    [num |-> 60 * (max_distance - distance) + 4 * max_distance * relevance,
     den |-> 100 * max_distance]

\* combined_score = 0.4 * (1 - distance / max_distance) + 0.6 * (relevance / 10),
\* as the fraction num / den with den = 100 * max_distance.
CombinedScore(distance, max_distance, relevance) ==
    [num |-> 40 * (max_distance - distance) + 6 * max_distance * relevance,
     den |-> 100 * max_distance]

\* Mutant: the sort key is the combined score alone.
RankLeq_ScoreOnly(x, y) == x.combined_score.num >= y.combined_score.num

\* key=lambda x: (-x['combined_score'], x['id']); one denominator in a batch.
RankLeq(x, y) ==
    \/ x.combined_score.num > y.combined_score.num
    \/ x.combined_score.num = y.combined_score.num /\ x.id <= y.id

\* results.sort(key=...): stable.
RECURSIVE InsertByRank(_, _)
InsertByRank(x, seq) ==
    IF seq = <<>> THEN <<x>>
    ELSE IF RankLeq(seq[Len(seq)], x) THEN Append(seq, x)
    ELSE Append(InsertByRank(x, SubSeq(seq, 1, Len(seq) - 1)), seq[Len(seq)])

RECURSIVE SortByRank(_)
SortByRank(seq) ==
    IF seq = <<>> THEN <<>>
    ELSE InsertByRank(seq[Len(seq)], SortByRank(SubSeq(seq, 1, Len(seq) - 1)))

\* Mutant: the single result is given the top of the 0-10 relevance scale.
SingleResult_TopOfScale(ids, texts, distances) ==
    << [id |-> ids[1], text |-> texts[1].text, metadata |-> texts[1],
        similarity_score |-> 1 - distances[1],
        relevance_score |-> 10,
        combined_score |-> [num |-> 1, den |-> 1]] >>

\* The single result case: if len(texts) == 1.
SingleResult(ids, texts, distances) ==
    << [id |-> ids[1], text |-> texts[1].text, metadata |-> texts[1],
        similarity_score |-> 1 - distances[1],
        relevance_score |-> 1,
        combined_score |-> [num |-> 1, den |-> 1]] >>

\* rerank_results(query, search_results) on a cache, with the outcome of the
\* scorer call if it makes one: the list it returns (results) or the message
\* it raises with (error), the cache it leaves and the batches of texts it
\* sent to the scorer, each with the scorer's answer (calls).
rerank_results(cache, q, search_results, outcome) ==
    LET texts == search_results.metadatas
        distances == search_results.distances
        ids == search_results.ids
        n == Len(texts)
    IN
    IF n = 0
    THEN [error |-> None, results |-> <<>>, cache |-> cache, calls |-> <<>>]
    ELSE IF n = 1
    THEN [error |-> None, results |-> SingleResult(ids, texts, distances),
          cache |-> cache, calls |-> <<>>]
    ELSE
    LET uncached_indices == UncachedIndices(cache, q, texts)
        uncached_texts == [j \in 1..Len(uncached_indices) |->
                              texts[uncached_indices[j]].text]
        called == uncached_texts # <<>>
        accepted == called /\ ParseScores(outcome, Len(uncached_texts)) = "ok"
        relevance_scores ==
            [i \in 1..n |->
                IF \E j \in 1..Len(uncached_indices) : uncached_indices[j] = i
                THEN IF accepted
                     THEN outcome.scores[UncachedPosition(uncached_indices, i)]
                     ELSE Fallback(distances[i])
                ELSE cache[_get_cache_key(q, texts[i].text)]]
        cache2 == IF called
                  THEN CacheAfter(cache, q, texts, uncached_indices, outcome)
                  ELSE cache
        sent == IF called
                THEN << [texts |-> uncached_texts, answer |-> outcome] >>
                ELSE <<>>
        max_distance == Max(distances)
    IN
    IF max_distance = 0
    THEN [error |-> "float division by zero", results |-> <<>>,
          cache |-> cache2, calls |-> sent]
    ELSE [error |-> None,
          results |-> SortByRank(
              [i \in 1..n |->
                  [id |-> ids[i], text |-> texts[i].text, metadata |-> texts[i],
                   similarity_score |-> 1 - distances[i],
                   relevance_score |-> relevance_scores[i],
                   combined_score |-> CombinedScore(distances[i], max_distance,
                                                    relevance_scores[i])]]),
          cache |-> cache2, calls |-> sent]

\* The number of texts a rerank_results call on this cache sends to the scorer.
UncachedCount(cache, q, search_results) ==
    IF Len(search_results.metadatas) < 2 THEN 0
    ELSE Len(UncachedIndices(cache, q, search_results.metadatas))

Reverse(seq) == [i \in 1..Len(seq) |-> seq[Len(seq) + 1 - i]]

ReverseCandidates(c) ==
    [ids |-> Reverse(c.ids), distances |-> Reverse(c.distances),
     metadatas |-> Reverse(c.metadatas)]

----------------------------------------------------------------------------
(* The calls of the search engine, one at a time *)

\* A caller calls perform_similarity_search.
SimilaritySearch ==
    /\ phase = "idle"
    /\ \E n_results \in 0..MaxBatch : \E answer \in StoreAnswers(n_results) :
         LET r == perform_similarity_search(n_results, answer) IN
         /\ method' = "perform_similarity_search"
         /\ candidates' = answer.results
         /\ found' = r.found
         /\ error' = r.error
    /\ phase' = "returned"
    /\ UNCHANGED <<relevance_cache, scored, query, results, scorer_calls>>
    /\ UNCHANGED <<ivars, avars>>

\* A call of rerank_results(q, c), whatever the scorer does.
Rerank(q, c) ==
    LET k == UncachedCount(relevance_cache, q, c) IN
    \E outcome \in ScorerOutcomes(k) :
        LET r == rerank_results(relevance_cache, q, c, outcome) IN
        /\ relevance_cache' = r.cache
        /\ scored' = IF k > 0 /\ ParseScores(outcome, k) = "ok"
                     THEN scored \cup {<<Lower(Strip(q)), r.calls[1].texts[j]>> :
                                          j \in 1..Len(r.calls[1].texts)}
                     ELSE scored
        /\ phase' = "returned"
        /\ method' = "rerank_results"
        /\ query' = q
        /\ candidates' = c
        /\ found' = EmptyResults
        /\ results' = r.results
        /\ error' = r.error
        /\ scorer_calls' = r.calls
        /\ UNCHANGED <<ivars, avars>>

\* A caller calls rerank_results.
RerankResults ==
    /\ phase = "idle"
    /\ \E q \in Queries : \E c \in CandidateLists(MaxBatch) : Rerank(q, c)

\* The caller calls rerank_results again: the same query, the same candidates
\* in reverse order.
RerankReversed ==
    /\ phase = "returned"
    /\ method = "rerank_results"
    /\ Rerank(query, ReverseCandidates(candidates))

\* The caller is done with what the call returned.
Return ==
    /\ phase = "returned"
    /\ phase' = "idle"
    /\ method' = None
    /\ query' = <<>>
    /\ candidates' = EmptyResults
    /\ found' = EmptyResults
    /\ results' = <<>>
    /\ error' = None
    /\ scorer_calls' = <<>>
    /\ args' = NoArgs
    /\ collab_calls' = <<>>
    /\ balanced' = <<>>
    /\ contexts' = <<>>
    /\ UNCHANGED <<relevance_cache, scored>>
    /\ UNCHANGED <<ivars, settings, threads>>

NextSearch ==
    \/ SimilaritySearch
    \/ RerankResults
    \/ RerankReversed
    \/ Return

SpecSearch == Init /\ [][NextSearch]_vars

----------------------------------------------------------------------------
(* Properties of the search engine *)

\* C14: perform_similarity_search returns the store's candidates, each id
\* with its own distance and metadata, sorted by ascending distance and, at
\* equal distance, by ascending id.
C14_SimilaritySorted ==
    (method = "perform_similarity_search" /\ error = None) =>
        /\ Len(found.ids) = Len(candidates.ids)
        /\ Len(found.distances) = Len(candidates.ids)
        /\ Len(found.metadatas) = Len(candidates.ids)
        /\ \A i \in 1..Len(candidates.ids) :
              \E k \in 1..Len(found.ids) :
                  /\ found.ids[k] = candidates.ids[i]
                  /\ found.distances[k] = candidates.distances[i]
                  /\ found.metadatas[k] = candidates.metadatas[i]
        /\ \A k, l \in 1..Len(found.ids) :
              k < l => \/ found.distances[k] < found.distances[l]
                       \/ /\ found.distances[k] = found.distances[l]
                          /\ found.ids[k] < found.ids[l]

\* Two candidates at one distance, answered by the store in descending id
\* order, have been sorted.
C14_Witness ==
    /\ method = "perform_similarity_search"
    /\ Len(candidates.ids) = 2
    /\ candidates.distances[1] = candidates.distances[2]
    /\ candidates.ids[1] > candidates.ids[2]
    /\ found.ids = Reverse(candidates.ids)

\* C15: a rerank_results call sends the scorer no text that the scorer has
\* scored before for the same normalized query.
C15_ScoredNeverResent ==
    [][method' = "rerank_results" =>
        \A b \in 1..Len(scorer_calls') :
            \A j \in 1..Len(scorer_calls'[b].texts) :
                <<Lower(Strip(query')), scorer_calls'[b].texts[j]>> \notin scored]_vars

\* A call with the query typed differently and a batch of a scored and an
\* unscored text: only the unscored one was sent.
C15_Witness ==
    /\ method = "rerank_results"
    /\ query = <<" ", "Q">>
    /\ Len(candidates.ids) = 2
    /\ \E i \in 1..2 : << <<"q">>, candidates.metadatas[i].text >> \in scored
    /\ Len(scorer_calls) = 1
    /\ scorer_calls[1].texts = << <<"u">> >>
    /\ scorer_calls[1].answer.kind = "raises"

RankedIds(res) == [k \in 1..Len(res) |-> res[k].id]

\* C16: a second rerank_results call with the same query and the same
\* candidates in reverse order returns the ids in the order of the first call
\* and sends nothing to the scorer.
C16_ReversedRerankSame ==
    [][(method = "rerank_results" /\ method' = "rerank_results"
            /\ query' = query /\ candidates' = ReverseCandidates(candidates)) =>
        /\ scorer_calls' = <<>>
        /\ error' = error
        /\ RankedIds(results') = RankedIds(results)]_vars

\* The scorer call of a rerank_results call failed: it raised, its answer
\* did not parse, or it held another number of scores than texts were sent.
ScorerFailed(call) ==
    \/ call.answer.kind \in {"raises", "unparsable"}
    \/ Len(call.answer.scores) # Len(call.texts)

\* The texts of the candidates c that cache holds no score for under query q.
UncachedTexts(q, c, cache) ==
    LET uncached == SelectSeq(c.metadatas,
            LAMBDA m : _get_cache_key(q, m.text) \notin DOMAIN cache)
    IN  [j \in 1..Len(uncached) |-> uncached[j].text]

\* C17: a rerank_results call makes at most one scorer call, and none when
\* every candidate is cached; the batch sent is the texts of the candidates
\* that were not cached when it was called, in candidate order.
C17_OneBatchOfUncached ==
    [][method' = "rerank_results" =>
        LET sent == UncachedTexts(query', candidates', relevance_cache) IN
        /\ Len(scorer_calls') <= 1
        /\ (Len(candidates'.ids) >= 2 /\ sent # <<>>) =>
              /\ Len(scorer_calls') = 1
              /\ scorer_calls'[1].texts = sent
        /\ sent = <<>> => scorer_calls' = <<>>]_vars

\* A batch of two cached candidates was reranked without a scorer call.
C17_Witness ==
    /\ method = "rerank_results"
    /\ Len(candidates.ids) = 2
    /\ error = None
    /\ scorer_calls = <<>>
    /\ \A i \in 1..2 :
          _get_cache_key(query, candidates.metadatas[i].text)
              \in DOMAIN relevance_cache

\* C18: when the scorer call fails, rerank_results raises nothing and returns
\* a list of all candidates in which a candidate that was cached has its
\* cached relevance and every other candidate the relevance 1 - distance.
C18_ScorerFailureFallsBack ==
    [][(method' = "rerank_results" /\ scorer_calls' # <<>>
            /\ ScorerFailed(scorer_calls'[1])) =>
        /\ error' = None
        /\ Len(results') = Len(candidates'.ids)
        /\ \A i \in 1..Len(candidates'.ids) :
              \E k \in 1..Len(results') :
                  LET key == _get_cache_key(query', candidates'.metadatas[i].text) IN
                  /\ results'[k].id = candidates'.ids[i]
                  /\ results'[k].relevance_score =
                        IF key \in DOMAIN relevance_cache
                        THEN relevance_cache[key]
                        ELSE 1 - candidates'.distances[i]]_vars

\* C19: the list rerank_results returns is in descending combined_score
\* order, and results of equal combined_score are in ascending id order.
C19_RankedOrder ==
    (method = "rerank_results" /\ error = None) =>
        \A k, l \in 1..Len(results) :
            k < l =>
                LET x == results[k].combined_score
                    y == results[l].combined_score
                IN  \/ x.num * y.den > y.num * x.den
                    \/ /\ x.num * y.den = y.num * x.den
                       /\ results[k].id < results[l].id

\* Two candidates of equal combined score, handed over in descending id order.
C19_Witness ==
    /\ method = "rerank_results"
    /\ error = None
    /\ Len(results) = 2
    /\ results[1].combined_score = results[2].combined_score
    /\ candidates.ids[1] > candidates.ids[2]
    /\ RankedIds(results) = Reverse(candidates.ids)

\* The relevance of candidate i of a rerank_results call: the score the cache
\* held when it was called, or the score the scorer gave in the candidate's
\* place among the uncached ones, or 1 - distance when the scorer call failed.
RelevanceOf(i, q, c, cache, made) ==
    LET key == _get_cache_key(q, c.metadatas[i].text)
        place == Cardinality({j \in 1..i :
                    _get_cache_key(q, c.metadatas[j].text) \notin DOMAIN cache})
    IN  IF key \in DOMAIN cache THEN cache[key]
        ELSE IF made # <<>> /\ ~ScorerFailed(made[1])
             THEN made[1].answer.scores[place]
        ELSE 1 - c.distances[i]

\* C20: for a batch of two or more candidates every result has
\* combined_score = 0.4 * (1 - distance / max) + 0.6 * (relevance / 10), max
\* the largest distance of the batch; with the score the fraction num / den:
\* num * 100 * max = den * (40 * (max - distance) + 6 * max * relevance).
C20_CombinedScore ==
    [][(method' = "rerank_results" /\ Len(candidates'.ids) >= 2 /\ error' = None) =>
        /\ Len(results') = Len(candidates'.ids)
        /\ \A i \in 1..Len(candidates'.ids) :
              \E k \in 1..Len(results') :
                  LET d == candidates'.distances[i]
                      m == Max(candidates'.distances)
                      rel == RelevanceOf(i, query', candidates', relevance_cache,
                                         scorer_calls')
                  IN  /\ results'[k].id = candidates'.ids[i]
                      /\ results'[k].relevance_score = rel
                      /\ results'[k].combined_score.num * 100 * m
                            = results'[k].combined_score.den
                                * (40 * (m - d) + 6 * m * rel)]_vars

\* A batch of a cached candidate and one the scorer scored in this call, at
\* different distances.
C20_Witness ==
    /\ method = "rerank_results"
    /\ error = None
    /\ Len(results) = 2
    /\ candidates.distances[1] # candidates.distances[2]
    /\ Len(scorer_calls) = 1
    /\ Len(scorer_calls[1].texts) = 1
    /\ ~ScorerFailed(scorer_calls[1])

\* C21 as claimed: a batch of one candidate returns one result of similarity
\* 1, relevance 1 and combined score 1, with no scorer call and the cache as
\* it was; an empty batch returns the empty list with no scorer call.
C21_SingleAllOnes ==
    [][method' = "rerank_results" =>
        /\ Len(candidates'.ids) = 1 =>
              /\ error' = None
              /\ Len(results') = 1
              /\ results'[1].id = candidates'.ids[1]
              /\ results'[1].similarity_score = 1
              /\ results'[1].relevance_score = 1
              /\ results'[1].combined_score.num = results'[1].combined_score.den
              /\ scorer_calls' = <<>>
              /\ relevance_cache' = relevance_cache
        /\ Len(candidates'.ids) = 0 =>
              /\ error' = None
              /\ results' = <<>>
              /\ scorer_calls' = <<>>]_vars

\* C21 as amended: the single result has similarity_score 1 - distance; its
\* relevance is 1 and its combined score 1 whatever the cache holds for its
\* text, no scorer call is made and the cache stays as it was.
C21_SingleShortCircuit ==
    [][method' = "rerank_results" =>
        /\ Len(candidates'.ids) = 1 =>
              /\ error' = None
              /\ Len(results') = 1
              /\ results'[1].id = candidates'.ids[1]
              /\ results'[1].text = candidates'.metadatas[1].text
              /\ results'[1].similarity_score = 1 - candidates'.distances[1]
              /\ results'[1].relevance_score = 1
              /\ results'[1].combined_score.num = results'[1].combined_score.den
              /\ scorer_calls' = <<>>
              /\ relevance_cache' = relevance_cache
        /\ Len(candidates'.ids) = 0 =>
              /\ error' = None
              /\ results' = <<>>
              /\ scorer_calls' = <<>>
              /\ relevance_cache' = relevance_cache]_vars

\* A single candidate at distance 1 whose text the cache holds a score for.
C21_Witness ==
    /\ method = "rerank_results"
    /\ Len(candidates.ids) = 1
    /\ candidates.distances[1] = 1
    /\ _get_cache_key(query, candidates.metadatas[1].text) \in DOMAIN relevance_cache
    /\ relevance_cache[_get_cache_key(query, candidates.metadatas[1].text)] = 8
    /\ results[1].relevance_score = 1

\* C22: every result rerank_results returns has similarity_score in [0,1],
\* relevance_score in [0,10] and combined_score in [0,1].
C22_ScoresInRange ==
    (method = "rerank_results" /\ error = None) =>
        \A k \in 1..Len(results) :
            /\ results[k].similarity_score >= 0
            /\ results[k].similarity_score <= 1
            /\ results[k].relevance_score >= 0
            /\ results[k].relevance_score <= 10
            /\ results[k].combined_score.num >= 0
            /\ results[k].combined_score.num <= results[k].combined_score.den

\* C38: a rerank_results call whose scorer call fails or gives the wrong
\* number of scores leaves the relevance cache as it was, and none of the
\* texts it sent is cached: the same call made again sends them again.
C38_FailureCachesNothing ==
    [][(method' = "rerank_results" /\ scorer_calls' # <<>>
            /\ ScorerFailed(scorer_calls'[1])) =>
          /\ relevance_cache' = relevance_cache
          /\ \A j \in 1..Len(scorer_calls'[1].texts) :
                _get_cache_key(query', scorer_calls'[1].texts[j])
                    \notin DOMAIN relevance_cache'
          /\ UncachedCount(relevance_cache', query', candidates')
                = Len(scorer_calls'[1].texts)]_vars

\* A call on a cache that holds one of its two texts: the scorer is sent the
\* other and gives two scores; the call falls back and returns.
C38_Witness ==
    /\ method = "rerank_results"
    /\ scorer_calls # <<>>
    /\ ScorerFailed(scorer_calls[1])
    /\ scorer_calls[1].answer.kind = "scores"
    /\ Len(scorer_calls[1].texts) = 1
    /\ relevance_cache # <<>>
    /\ error = None
    /\ Len(results) = 2

\* C39: rerank_results returns a ranked list, and raises nothing, for every
\* batch of two candidates or more, whatever their distances.
C39_RerankNeverRaises ==
    (method = "rerank_results" /\ Len(candidates.ids) >= 2) =>
        /\ error = None
        /\ Len(results) = Len(candidates.ids)

----------------------------------------------------------------------------
(* Concurrent requests inside rerank_results. The web server runs each      *)
(* request in a thread of its own, on the one SearchEngine of the process;  *)
(* a step is one access to the shared _relevance_cache, with the local      *)
(* computation that precedes it, or the call of the scorer.                 *)

\* What a step of a request inside rerank_results leaves alone.
notthreads == <<ivars, scored, phase, method, query, candidates, found,
                results, error, scorer_calls, settings, args, collab_calls,
                balanced, contexts>>

\* A request calls rerank_results with two candidates or more (with fewer
\* the cache is not touched).
RerankEnter(t) ==
    /\ threads[t].pc = "idle"
    /\ \E q \in Queries : \E l \in IdLists(MaxBatch) :
         /\ Len(l) >= 2
         /\ threads' = [threads EXCEPT ![t] =
                [pc |-> "lookup", query |-> q,
                 texts |-> [i \in 1..Len(l) |-> [text |-> StoreTexts[l[i]]]],
                 i |-> 1, uncached_indices |-> <<>>, new_scores |-> <<>>]]
    /\ UNCHANGED <<relevance_cache, notthreads>>

\* One turn of the loop over texts: self._relevance_cache.get(cache_key).
RerankLookup(t) ==
    LET th == threads[t]
        cache_key == _get_cache_key(th.query, th.texts[th.i].text)
        uncached == IF cache_key \in DOMAIN relevance_cache
                    THEN th.uncached_indices
                    ELSE Append(th.uncached_indices, th.i)
        last == th.i = Len(th.texts)
    IN
    /\ th.pc = "lookup"
    /\ threads' = [threads EXCEPT ![t] =
           [th EXCEPT !.uncached_indices = uncached,
                      !.i = IF last THEN 1 ELSE th.i + 1,
                      !.pc = IF ~last THEN "lookup"
                             ELSE IF uncached # <<>> THEN "score"
                             ELSE "return"]]
    /\ UNCHANGED <<relevance_cache, notthreads>>

\* The scorer answers the batch of uncached texts; an answer that is not
\* one score per text, or no answer, leads to the fallback.
RerankScore(t) ==
    LET th == threads[t]
        k == Len(th.uncached_indices)
    IN
    /\ th.pc = "score"
    /\ \E outcome \in ScorerOutcomes(k) :
         threads' = [threads EXCEPT ![t] =
            IF ParseScores(outcome, k) = "ok"
            THEN [th EXCEPT !.new_scores = outcome.scores, !.pc = "update"]
            ELSE [th EXCEPT !.pc = "return"]]
    /\ UNCHANGED <<relevance_cache, notthreads>>

\* One turn of the loop over new_scores:
\* self._relevance_cache[cache_key] = score.
RerankUpdate(t) ==
    LET th == threads[t]
        original_idx == th.uncached_indices[th.i]
        cache_key == _get_cache_key(th.query, th.texts[original_idx].text)
        last == th.i = Len(th.new_scores)
    IN
    /\ th.pc = "update"
    /\ relevance_cache' = PutCache(relevance_cache, cache_key, th.new_scores[th.i])
    /\ threads' = [threads EXCEPT ![t] =
           [th EXCEPT !.i = IF last THEN 1 ELSE th.i + 1,
                      !.pc = IF last THEN "return" ELSE "update"]]
    /\ UNCHANGED notthreads

\* rerank_results returns (or raises): its frame is gone.
RerankLeave(t) ==
    /\ threads[t].pc = "return"
    /\ threads' = [threads EXCEPT ![t] = IdleThread]
    /\ UNCHANGED <<relevance_cache, notthreads>>

NextThreads ==
    \E t \in Threads :
        \/ RerankEnter(t)
        \/ RerankLookup(t)
        \/ RerankScore(t)
        \/ RerankUpdate(t)
        \/ RerankLeave(t)

SpecThreads == Init /\ [][NextThreads]_vars

\* C23: once a key is in the relevance cache, no step of any request, alone
\* or interleaved with another, removes it or changes the score it maps to.
C23_CachedValueStable ==
    [][\A k \in DOMAIN relevance_cache :
          /\ k \in DOMAIN relevance_cache'
          /\ relevance_cache'[k] = relevance_cache[k]]_vars

----------------------------------------------------------------------------
(* DynamicSettings (rag_backend/config/dynamic_settings.py): the llm        *)
(* section. A temperature is a whole number of tenths.                      *)

\* The values a caller offers for the keys of the llm section.
OfferedLLM == [temperature |-> {7, 25}, max_tokens |-> {0, 500}]

\* The llm sections of a new_settings dictionary: any of the keys, each with
\* one of the values offered for it.
LLMUpdates ==
    {f \in UNION {[K -> {0, 7, 25, 500}] : K \in SUBSET {"temperature", "max_tokens"}} :
        \A k \in DOMAIN f : f[k] \in OfferedLLM[k]}

\* The cache sections of a new_settings dictionary: empty, or a size.
CacheUpdates == {<<>>} \cup {[size |-> v] : v \in {0, 50}}

\* new_settings: with or without an llm section and a cache section.
NewSettings ==
    {<<>>} \cup {[llm |-> f] : f \in LLMUpdates}
           \cup {[cache |-> g] : g \in CacheUpdates}
           \cup {[llm |-> f, cache |-> g] : f \in LLMUpdates, g \in CacheUpdates}

\* LLMSettings.validate
LLMValidate(llm) ==
    /\ 0 <= llm.temperature /\ llm.temperature <= 20
    /\ llm.max_tokens >= 1

\* CacheSettings.validate
CacheValidate(cache) == cache.size >= 1

\* dict.get(key, default)
Get(dict, key, default) == IF key \in DOMAIN dict THEN dict[key] ELSE default

\* temp_x = XSettings(key=x_settings.get(key, self.x.key), ...)
Merged(section, supplied) ==
    [k \in DOMAIN section |-> Get(supplied, k, section[k])]

\* Mutant: the section is replaced whether it is valid or not.
Replaced_Always(section, temp, valid) == temp

\* if temp_x.validate(): self.x = temp_x
Replaced(section, temp, valid) == IF valid THEN temp ELSE section

\* update_settings(new_settings): the sections after it, what it returns
\* (success) and the _notify_observers calls it made, in order.
update_settings(current, new_settings) ==
    LET has_llm == "llm" \in DOMAIN new_settings
        temp_llm == IF has_llm THEN Merged(current.llm, new_settings.llm)
                    ELSE current.llm
        llm_ok == LLMValidate(temp_llm)
        llm == IF has_llm THEN Replaced(current.llm, temp_llm, llm_ok)
               ELSE current.llm
        has_cache == "cache" \in DOMAIN new_settings
        temp_cache == IF has_cache THEN Merged(current.cache, new_settings.cache)
                      ELSE current.cache
        cache_ok == CacheValidate(temp_cache)
        cache == IF has_cache THEN Replaced(current.cache, temp_cache, cache_ok)
                 ELSE current.cache
    IN  [settings |-> [llm |-> llm, cache |-> cache],
         success |-> (has_llm => llm_ok) /\ (has_cache => cache_ok),
         notified |->
            (IF has_llm /\ llm_ok
             THEN << [to |-> "observers", setting_name |-> "llm", new_value |-> llm] >>
             ELSE <<>>)
            \o (IF has_cache /\ cache_ok
                THEN << [to |-> "observers", setting_name |-> "cache",
                         new_value |-> cache] >>
                ELSE <<>>)]

\* A caller updates the settings. The observers are the _handle_settings_change
\* of the chatbots and of the document processor: they take the new section
\* and clear the response caches; none of them touches the search engine.
UpdateSettings ==
    /\ phase = "idle"
    /\ \E new_settings \in NewSettings :
         LET r == update_settings(settings, new_settings) IN
         /\ settings' = r.settings
         /\ args' = [new_settings |-> new_settings]
         /\ results' = <<r.success>>
         /\ collab_calls' = r.notified
    /\ phase' = "returned"
    /\ method' = "update_settings"
    /\ UNCHANGED <<ivars, relevance_cache, scored, query, candidates, found, error,
                   scorer_calls, threads, balanced, contexts>>

NextSettings ==
    \/ RerankResults
    \/ Return
    \/ UpdateSettings

SpecSettings == Init /\ [][NextSettings]_vars

\* C24: a settings update that changes the llm section leaves the relevance
\* cache empty.
C24_UpdateEmptiesCache ==
    [][settings'.llm # settings.llm => relevance_cache' = <<>>]_vars

NextUpdate ==
    \/ UpdateSettings
    \/ Return

SpecUpdate == Init /\ [][NextUpdate]_vars

\* The number of _notify_observers calls for a section.
Notified(log, name) == Len(SelectSeq(log, LAMBDA c : c.setting_name = name))

\* The values a section would have with the keys supplied, and whether they
\* pass its validation.
Wanted(name, supplied) == Merged(settings[name], supplied)
Passes(name, section) ==
    IF name = "llm" THEN LLMValidate(section) ELSE CacheValidate(section)

\* C32: in an update_settings call, a section supplied that fails its
\* validation makes the call return False, keeps its values and is not
\* notified; a section supplied that passes is replaced, the keys not supplied
\* keeping their values, and is notified exactly once, with its new values.
C32_SectionsValidated ==
    [][(phase = "idle" /\ method' = "update_settings") =>
          \A name \in DOMAIN args'.new_settings :
              LET wanted == Wanted(name, args'.new_settings[name]) IN
              IF Passes(name, wanted)
              THEN /\ settings'[name] = wanted
                   /\ Notified(collab_calls', name) = 1
                   /\ \A k \in 1..Len(collab_calls') :
                         collab_calls'[k].setting_name = name
                            => collab_calls'[k].new_value = wanted
              ELSE /\ results' = <<FALSE>>
                   /\ settings'[name] = settings[name]
                   /\ Notified(collab_calls', name) = 0]_vars

\* An update with an llm section that fails (temperature alone, too high,
\* after max_tokens had been changed) and a cache section that passes.
C32_Witness ==
    /\ method = "update_settings"
    /\ DOMAIN args.new_settings = {"llm", "cache"}
    /\ DOMAIN args.new_settings.llm = {"temperature"}
    /\ args.new_settings.llm.temperature = 25
    /\ results = <<FALSE>>
    /\ settings.llm = [temperature |-> 7, max_tokens |-> 500]
    /\ settings.cache.size = 50
    /\ Notified(collab_calls, "cache") = 1

----------------------------------------------------------------------------
(* SearchEngine.search: the whole pipeline of one query                     *)

\* The n_results a caller passes: something that is not an int, or an int.
NResults ==
    {[is_int |-> FALSE, value |-> 0]}
        \cup {[is_int |-> TRUE, value |-> k] : k \in -1..2}

\* The filters a caller passes: source_names (None or a list) and title.
Filters ==
    {[source_names |-> <<>>, title |-> None],
     [source_names |-> <<"a.pdf", "b.docx">>, title |-> "T"]}

\* Mutant: only a negative count is refused.
InvalidCount_NegativeOnly(n_results) == n_results.is_int /\ n_results.value < 0

\* not isinstance(n_results, int) or n_results < 1
InvalidCount(n_results) == ~n_results.is_int \/ n_results.value < 1

\* Mutant: the store is asked for as many candidates as the caller wants.
CandidateCount_Requested(n_results) == n_results

\* n_results=n_results * 2
CandidateCount(n_results) == n_results * 2

Min(a, b) == IF a <= b THEN a ELSE b

\* reranked_results[:n_results]
Truncate(seq, n_results) == SubSeq(seq, 1, Min(n_results, Len(seq)))

\* What a search without a result leaves behind.
SearchRaises(message, cache, collab, sent, answer) ==
    [error |-> message, results |-> <<>>, cache |-> cache,
     collab_calls |-> collab, calls |-> sent,
     candidates |-> answer, found |-> EmptyResults]

\* search(query, n_results, source_names, title) on a cache, with what the
\* collaborators do when they are called: the embedding service (raises or
\* not), the store (answer) and the scorer (outcome).
search(cache, query_given, q, n_results, source_names, title, embedding_raises, answer, outcome) ==
    IF InvalidCount(n_results)
    THEN SearchRaises("Error performing search: n_results must be a positive integer",
                      cache, <<>>, <<>>, EmptyResults)
    ELSE IF ~query_given
    THEN SearchRaises("Error performing search: Query cannot be None",
                      cache, <<>>, <<>>, EmptyResults)
    ELSE
    LET embed_call == [to |-> "embedding", text |-> Lower(Strip(q))]
        store_call == [to |-> "store",
                       n_results |-> CandidateCount(n_results.value),
                       source_names |-> source_names, title |-> title]
    IN
    IF embedding_raises
    THEN SearchRaises("Error performing search: Embedding generation failed",
                      cache, <<embed_call>>, <<>>, EmptyResults)
    ELSE
    LET s == perform_similarity_search(CandidateCount(n_results.value), answer) IN
    IF s.error # None
    THEN SearchRaises("Error performing search: Database query failed",
                      cache, <<embed_call, store_call>>, <<>>, answer.results)
    ELSE
    LET r == rerank_results(cache, q, s.found, outcome) IN
    IF r.error # None
    THEN [SearchRaises("Error performing search: float division by zero",
                       r.cache, <<embed_call, store_call>>, r.calls,
                       answer.results) EXCEPT !.found = s.found]
    ELSE [error |-> None, results |-> Truncate(r.results, n_results.value),
          cache |-> r.cache, collab_calls |-> <<embed_call, store_call>>,
          calls |-> r.calls, candidates |-> answer.results, found |-> s.found]

\* The number of texts the rerank step of this search sends to the scorer.
SearchUncachedCount(cache, query_given, q, n_results, embedding_raises, answer) ==
    IF InvalidCount(n_results) \/ ~query_given \/ embedding_raises THEN 0
    ELSE LET s == perform_similarity_search(CandidateCount(n_results.value), answer)
         IN  IF s.error # None THEN 0 ELSE UncachedCount(cache, q, s.found)

\* A caller calls search; the store answers with no more candidates than it
\* is asked for.
Search ==
    /\ phase = "idle"
    /\ \E n_results \in NResults : \E f \in Filters :
       \E qa \in {[given |-> FALSE, q |-> <<>>]}
                    \cup {[given |-> TRUE, q |-> q] : q \in Queries} :
       \E embedding_raises \in BOOLEAN :
       \E answer \in StoreAnswers(
                Min(IF n_results.value < 1 THEN 0 ELSE CandidateCount(n_results.value),
                    MaxBatch)) :
         LET k == SearchUncachedCount(relevance_cache, qa.given, qa.q, n_results,
                                      embedding_raises, answer)
         IN
         \E outcome \in ScorerOutcomes(k) :
           LET r == search(relevance_cache, qa.given, qa.q, n_results,
                           f.source_names, f.title, embedding_raises, answer,
                           outcome)
           IN
           /\ relevance_cache' = r.cache
           /\ scored' = IF k > 0 /\ ParseScores(outcome, k) = "ok"
                        THEN scored \cup {<<Lower(Strip(qa.q)), r.calls[1].texts[j]>> :
                                             j \in 1..Len(r.calls[1].texts)}
                        ELSE scored
           /\ method' = "search"
           /\ query' = qa.q
           /\ args' = [n_results |-> n_results, source_names |-> f.source_names,
                       title |-> f.title, query_given |-> qa.given]
           /\ candidates' = r.candidates
           /\ found' = r.found
           /\ results' = r.results
           /\ error' = r.error
           /\ scorer_calls' = r.calls
           /\ collab_calls' = r.collab_calls
    /\ phase' = "returned"
    /\ UNCHANGED <<ivars, settings, threads, balanced, contexts>>

NextPipeline ==
    \/ Search
    \/ Return

SpecPipeline == Init /\ [][NextPipeline]_vars

\* The store calls of the call in progress.
StoreCalls == SelectSeq(collab_calls, LAMBDA c : c.to = "store")

\* The answer the scorer gave the call in progress, if it was called.
ScorerAnswer ==
    IF scorer_calls = <<>> THEN [kind |-> "not called", scores |-> <<>>]
    ELSE scorer_calls[1].answer

\* C25: a search for n results asks the store at most once, for 2 * n
\* candidates and with the source_names and the title it was given; when it
\* returns, it has asked the store, and it returns the first n entries of the
\* list rerank_results makes of what the similarity search found (all of
\* them if there are fewer).
C25_SearchWidensAndTruncates ==
    [][(phase = "idle" /\ method' = "search") =>
          LET n == args'.n_results.value IN
          /\ Len(StoreCalls') <= 1
          /\ \A k \in 1..Len(StoreCalls') :
                /\ StoreCalls'[k].n_results = 2 * n
                /\ StoreCalls'[k].source_names = args'.source_names
                /\ StoreCalls'[k].title = args'.title
          /\ error' = None =>
                /\ Len(StoreCalls') = 1
                /\ Len(results') <= n
                /\ LET reranked == rerank_results(relevance_cache, query', found',
                                                  ScorerAnswer').results
                   IN  /\ Len(results') = Min(n, Len(reranked))
                       /\ \A i \in 1..Len(results') : results'[i] = reranked[i]]_vars

\* A search for one result that found two candidates, with filters.
C25_Witness ==
    /\ method = "search"
    /\ error = None
    /\ args.n_results.value = 1
    /\ args.title = "T"
    /\ Len(found.ids) = 2
    /\ Len(results) = 1
    /\ scorer_calls # <<>>

\* C26: a search with no query, or with an n_results that is not an int or
\* is below 1, raises, calls neither the embedding service nor the store nor
\* the scorer, and leaves the relevance cache as it was.
C26_BadInputRejected ==
    [][(phase = "idle" /\ method' = "search"
           /\ (\/ ~args'.query_given
               \/ ~args'.n_results.is_int
               \/ args'.n_results.value < 1)) =>
          /\ error' # None
          /\ results' = <<>>
          /\ collab_calls' = <<>>
          /\ scorer_calls' = <<>>
          /\ relevance_cache' = relevance_cache]_vars

\* A search without a query, for a valid count, on a cache that holds scores.
C26_Witness ==
    /\ method = "search"
    /\ ~args.query_given
    /\ args.n_results.value = 2
    /\ error = "Error performing search: Query cannot be None"
    /\ relevance_cache # <<>>

----------------------------------------------------------------------------
(* RAGApplication._balance_results (rag_backend/app.py)                     *)

\* Largest number of results in a list handed to _balance_results.
MaxResults == 6

\* The sources of the results: two a caller asks for and one it does not.
Sources == {"a.pdf", "b.docx", "c.txt"}

\* The source_names a caller passes: none, one, two, in either order, and
\* one source named twice.
SourceNames ==
    {<<>>, <<"a.pdf">>, <<"a.pdf", "b.docx">>, <<"b.docx", "a.pdf">>,
     <<"a.pdf", "a.pdf">>}

\* The combined scores of one batch, as numerators over 100 * max_distance.
BatchScores == {[num |-> 40, den |-> 100], [num |-> 80, den |-> 100]}

\* The lists of up to n results search can return: the ids are the places
\* in the list, the combined scores do not increase along it.
RankedLists(n) ==
    {l \in UNION {[1..k -> [source_name : Sources, combined_score : BatchScores]] :
                    k \in 0..n} :
        \A i \in 1..(Len(l) - 1) : l[i].combined_score.num >= l[i + 1].combined_score.num}

\* A result of the list l, as far as _balance_results looks at it.
AsResult(l, i) ==
    [id |-> i, metadata |-> [source_name |-> l[i].source_name],
     combined_score |-> l[i].combined_score]

\* result['metadata'].get('source_name', 'Unknown')
SourceOf(result) == Get(result.metadata, "source_name", "Unknown")

\* Mutant: only the first result of a source is kept.
results_by_source_First(rs, source) ==
    LET own == SelectSeq(rs, LAMBDA r : SourceOf(r) = source)
    IN  SubSeq(own, 1, Min(1, Len(own)))

\* results_by_source.get(source, []): the results of a source, in the order
\* of the list.
results_by_source(rs, source) ==
    SelectSeq(rs, LAMBDA r : SourceOf(r) = source)

Max2(a, b) == IF a >= b THEN a ELSE b

\* min_per_source = max(2, len(results) // len(source_names))
min_per_source(rs, source_names) ==
    Max2(2, Len(rs) \div Len(source_names))

\* The first loop over source_names: what goes to balanced_results.
RECURSIVE BalancedHead(_, _, _)
BalancedHead(rs, source_names, m) ==
    IF source_names = <<>> THEN <<>>
    ELSE LET source_results == results_by_source(rs, Head(source_names))
         IN  Truncate(source_results, m)
                 \o BalancedHead(rs, Tail(source_names), m)

\* The first loop over source_names: what goes to remaining_results.
RECURSIVE Remaining(_, _, _)
Remaining(rs, source_names, m) ==
    IF source_names = <<>> THEN <<>>
    ELSE LET source_results == results_by_source(rs, Head(source_names))
         IN  SubSeq(source_results, Min(m, Len(source_results)) + 1,
                    Len(source_results))
                 \o Remaining(rs, Tail(source_names), m)

\* remaining_results.sort(key=lambda x: x['combined_score'], reverse=True):
\* stable.
RECURSIVE InsertByScore(_, _)
InsertByScore(x, seq) ==
    IF seq = <<>> THEN <<x>>
    ELSE IF seq[Len(seq)].combined_score.num >= x.combined_score.num
    THEN Append(seq, x)
    ELSE Append(InsertByScore(x, SubSeq(seq, 1, Len(seq) - 1)), seq[Len(seq)])

RECURSIVE SortByScore(_)
SortByScore(seq) ==
    IF seq = <<>> THEN <<>>
    ELSE InsertByScore(seq[Len(seq)], SortByScore(SubSeq(seq, 1, Len(seq) - 1)))

\* _balance_results(rs, source_names)
_balance_results(rs, source_names) ==
    IF Len(source_names) <= 1 THEN rs
    ELSE LET m == min_per_source(rs, source_names)
         IN  BalancedHead(rs, source_names, m)
                 \o SortByScore(Remaining(rs, source_names, m))

\* A caller calls _balance_results with a ranked list.
BalanceResults ==
    /\ phase = "idle"
    /\ \E l \in RankedLists(MaxResults) : \E source_names \in SourceNames :
         LET ranked == [i \in 1..Len(l) |-> AsResult(l, i)] IN
         /\ results' = ranked
         /\ args' = [NoArgs EXCEPT !.source_names = source_names]
         /\ balanced' = _balance_results(ranked, source_names)
    /\ phase' = "returned"
    /\ method' = "_balance_results"
    /\ UNCHANGED <<ivars, relevance_cache, scored, query, candidates, found, error,
                   scorer_calls, settings, collab_calls, threads, contexts>>

NextBalance ==
    \/ BalanceResults
    \/ Return

SpecBalance == Init /\ [][NextBalance]_vars

\* The number of results of a source in a list, and the requested sources.
CountOf(seq, source) == Len(SelectSeq(seq, LAMBDA r : SourceOf(r) = source))
Requested == {args.source_names[k] : k \in 1..Len(args.source_names)}

\* The case of the minimum guarantee: n requested sources, each with two
\* candidates or more, and 2 * n results or more.
GuaranteeCase ==
    /\ method = "_balance_results"
    /\ Len(args.source_names) >= 1
    /\ \A source \in Requested : CountOf(results, source) >= 2
    /\ Len(results) >= 2 * Len(args.source_names)

\* C27 as stated: in the case of the minimum guarantee the output holds
\* max(2, total_results // n) results or more of each requested source.
C27_MinimumFromEachSource ==
    GuaranteeCase =>
        \A source \in Requested :
            CountOf(balanced, source)
                >= Max2(2, Len(results) \div Len(args.source_names))

\* C27: in the case of the minimum guarantee the output holds, of each
\* requested source, max(2, total_results // n) results or more, or all the
\* candidates of the source if they are fewer; two or more in any case.
C27_MinimumOrAllFromEachSource ==
    GuaranteeCase =>
        \A source \in Requested :
            /\ CountOf(balanced, source) >= 2
            /\ CountOf(balanced, source)
                  >= Min(CountOf(results, source),
                         Max2(2, Len(results) \div Len(args.source_names)))

\* Six results for two sources, four of one and two of the other.
C27_Witness ==
    /\ GuaranteeCase
    /\ args.source_names = <<"a.pdf", "b.docx">>
    /\ Len(results) = 6
    /\ CountOf(results, "a.pdf") = 4
    /\ CountOf(results, "b.docx") = 2
    /\ CountOf(balanced, "b.docx") = 2

\* The ids of a list of results, in order and as a set.
IdsOf(seq) == [i \in 1..Len(seq) |-> seq[i].id]
IdSet(seq) == {seq[i].id : i \in 1..Len(seq)}

\* The up-to-m top-ranked results of each of the sources named, in the order
\* of the names.
RECURSIVE TopOfEach(_, _)
TopOfEach(names, m) ==
    IF names = <<>> THEN <<>>
    ELSE LET own == SelectSeq(results, LAMBDA r : SourceOf(r) = Head(names))
         IN  SubSeq(own, 1, Min(m, Len(own))) \o TopOfEach(Tail(names), m)

\* C28: for more than one requested source the output is, for each requested
\* source in the caller's order, the up-to-min_per_source top-ranked results
\* of that source, followed by all the results that are left over, each once,
\* by descending combined_score; for one or no requested source the output
\* is the list itself.
C28_HeadThenLeftovers ==
    method = "_balance_results" =>
        IF Len(args.source_names) <= 1 THEN balanced = results
        ELSE LET m == Max2(2, Len(results) \div Len(args.source_names))
                 head == TopOfEach(args.source_names, m)
                 tail == SubSeq(balanced, Len(head) + 1, Len(balanced))
             IN  /\ Len(balanced) >= Len(head)
                 /\ SubSeq(balanced, 1, Len(head)) = head
                 /\ IdSet(tail) = IdSet(results) \ IdSet(head)
                 /\ Len(tail) = Cardinality(IdSet(tail))
                 /\ \A i \in 1..(Len(tail) - 1) :
                       tail[i].combined_score.num >= tail[i + 1].combined_score.num

\* C37: for two source_names or more the output of _balance_results is a
\* permutation of its input: as many results, and each of them once (the ids
\* of the input are all different).
C37_BalancePermutes ==
    (method = "_balance_results" /\ Len(args.source_names) >= 2) =>
        /\ Len(balanced) = Len(results)
        /\ IdSet(balanced) = IdSet(results)

----------------------------------------------------------------------------
(* RAGApplication.query_documents (rag_backend/app.py): search, balance,    *)
(* contexts, sort, answer                                                   *)

\* Number of chunks of the larger document the store holds.
MaxChunks == 6

\* The strings that are compared, in the order of str.__lt__.
StringOrder == <<"", "Unknown", "a.pdf", "b.docx", "c.txt", "ta", "tb">>
Ord(str) == CHOOSE k \in 1..Len(StringOrder) : StringOrder[k] = str

\* What the store holds after a.pdf (MaxChunks chunks) and b.docx (one chunk)
\* were ingested one after the other.
LibrarySerial ==
    [i \in 1..MaxChunks |->
        [text |-> <<"t">>, source_name |-> "a.pdf", title |-> "ta",
         chunk_index |-> i - 1, total_chunks |-> MaxChunks]]
    \o << [text |-> <<"u">>, source_name |-> "b.docx", title |-> "tb",
           chunk_index |-> 0, total_chunks |-> 1] >>

\* What it holds when a second, one-chunk version of a.pdf was ingested at
\* the same time as the first: the chunks of both.
LibraryMixed ==
    LibrarySerial
    \o << [text |-> <<"u">>, source_name |-> "a.pdf", title |-> "ta",
           chunk_index |-> 0, total_chunks |-> 1] >>

Libraries == {LibrarySerial, LibraryMixed}

\* The n_results a caller of query_documents passes (5 is the default).
QueryNResults == {1, 5}

\* The distances of the query to the chunks: one for each source.
SourceDistances == [{"a.pdf", "b.docx"} -> Distances]

\* The answers of the scorer to a batch: it raises, or it gives every text
\* the score of its content.
TextScorerOutcomes(texts) ==
    IF texts = <<>> THEN {[kind |-> "not called", scores |-> <<>>]}
    ELSE {[kind |-> "raises", scores |-> <<>>]}
         \cup {[kind |-> "scores",
                 scores |-> [j \in 1..Len(texts) |-> f[texts[j]]]] :
                    f \in [{<<"t">>, <<"u">>} -> Scores]}

\* vector_db.query with where = {"source_name": {"$in": source_names}} (no
\* filter without source_names; the callers here pass no title): the
\* n_results nearest of the chunks that match, as parallel lists.
StoreQuery(library, dist, n_results, source_names) ==
    LET names == {source_names[k] : k \in 1..Len(source_names)}
        matching == SelectSeq([i \in 1..Len(library) |-> i],
                              LAMBDA i : source_names = <<>>
                                            \/ library[i].source_name \in names)
        nearest == Truncate(
            SortByDistanceId([k \in 1..Len(matching) |->
                [distance |-> dist[library[matching[k]].source_name],
                 id |-> matching[k], metadata |-> library[matching[k]]]]),
            n_results)
    IN  [ids |-> [k \in 1..Len(nearest) |-> nearest[k].id],
         distances |-> [k \in 1..Len(nearest) |-> nearest[k].distance],
         metadatas |-> [k \in 1..Len(nearest) |-> nearest[k].metadata]]

\* n_results = max(n_results, len(source_names) * 3)
Widened(n_results, source_names) ==
    IF source_names # <<>> THEN Max2(n_results, Len(source_names) * 3)
    ELSE n_results

\* The loop over results: the context of each.
ExtractContexts(rs) ==
    [i \in 1..Len(rs) |->
        [text |-> rs[i].text,
         source |-> Get(rs[i].metadata, "source_name", "Unknown"),
         title |-> Get(rs[i].metadata, "title", ""),
         chunk_index |-> Get(rs[i].metadata, "chunk_index", 0),
         total_chunks |-> Get(rs[i].metadata, "total_chunks", 1)]]

\* The order of the keys (source, title, chunk_index).
ContextLeq(x, y) ==
    \/ Ord(x.source) < Ord(y.source)
    \/ /\ x.source = y.source
       /\ \/ Ord(x.title) < Ord(y.title)
          \/ x.title = y.title /\ x.chunk_index <= y.chunk_index

\* sorted(contexts, key=...): stable.
RECURSIVE InsertContext(_, _)
InsertContext(x, seq) ==
    IF seq = <<>> THEN <<x>>
    ELSE IF ContextLeq(seq[Len(seq)], x) THEN Append(seq, x)
    ELSE Append(InsertContext(x, SubSeq(seq, 1, Len(seq) - 1)), seq[Len(seq)])

RECURSIVE _sort_contexts(_)
_sort_contexts(seq) ==
    IF seq = <<>> THEN <<>>
    ELSE InsertContext(seq[Len(seq)], _sort_contexts(SubSeq(seq, 1, Len(seq) - 1)))

\* What query_documents does with the results of the search: balance them
\* for more than one source (balanced), and extract and sort the contexts.
AfterSearch(rs, source_names) ==
    LET b == IF Len(source_names) > 1 THEN _balance_results(rs, source_names)
             ELSE rs
    IN  [balanced |-> b, contexts |-> _sort_contexts(ExtractContexts(b))]

\* A caller calls query_documents; the store holds one of the libraries.
QueryDocuments ==
    /\ phase = "idle"
    /\ \E library \in Libraries : \E dist \in SourceDistances :
       \E q \in Queries : \E n_results \in QueryNResults :
       \E source_names \in SourceNames :
         LET n == [is_int |-> TRUE, value |-> Widened(n_results, source_names)]
             answer == [raises |-> FALSE,
                        results |-> StoreQuery(library, dist,
                                               CandidateCount(n.value),
                                               source_names)]
             s == perform_similarity_search(CandidateCount(n.value), answer)
             uncached_indices == IF Len(s.found.ids) < 2 THEN <<>>
                                 ELSE UncachedIndices(relevance_cache, q,
                                                      s.found.metadatas)
             uncached_texts == [j \in 1..Len(uncached_indices) |->
                                   s.found.metadatas[uncached_indices[j]].text]
         IN
         \E outcome \in TextScorerOutcomes(uncached_texts) :
           LET r == search(relevance_cache, TRUE, q, n, source_names, None,
                           FALSE, answer, outcome)
               a == AfterSearch(r.results, source_names)
           IN
           /\ relevance_cache' = r.cache
           /\ scored' = IF outcome.kind = "scores"
                        THEN scored \cup {<<Lower(Strip(q)), uncached_texts[j]>> :
                                             j \in 1..Len(uncached_texts)}
                        ELSE scored
           /\ method' = "query_documents"
           /\ query' = q
           /\ args' = [n_results |-> [is_int |-> TRUE, value |-> n_results],
                       source_names |-> source_names, title |-> None,
                       query_given |-> TRUE]
           /\ candidates' = r.candidates
           /\ found' = r.found
           /\ results' = r.results
           /\ error' = r.error
           /\ scorer_calls' = r.calls
           /\ collab_calls' = r.collab_calls
           /\ balanced' = IF r.error = None THEN a.balanced ELSE <<>>
           /\ contexts' = IF r.error = None THEN a.contexts ELSE <<>>
    /\ phase' = "returned"
    /\ UNCHANGED <<ivars, settings, threads>>

NextQuery ==
    \/ QueryDocuments
    \/ Return

SpecQuery == Init /\ [][NextQuery]_vars

\* The sources of the candidates the similarity search found, and of the
\* contexts.
FoundSources == {found.metadatas[i].source_name : i \in 1..Len(found.metadatas)}
ContextSources == {contexts[i].source : i \in 1..Len(contexts)}

\* C29: when query_documents, called for more than one source, hands
\* contexts to the answer generation, every requested source that has a
\* candidate in the result of the widened similarity search has a context.
C29_EverySourceRepresented ==
    (method = "query_documents" /\ error = None /\ Len(args.source_names) > 1) =>
        \A source \in Requested :
            source \in FoundSources => source \in ContextSources

\* The list with the entries at i and j exchanged.
Swap(seq, i, j) ==
    [k \in 1..Len(seq) |-> IF k = i THEN seq[j] ELSE IF k = j THEN seq[i] ELSE seq[k]]

\* C30: the contexts query_documents hands to the answer generation are in
\* ascending order of (source, title, chunk_index), and they are the list it
\* would hand over for the same search results in any other order.
C30_ContextsSortedAndStable ==
    (method = "query_documents" /\ error = None) =>
        /\ \A i \in 1..(Len(contexts) - 1) : ContextLeq(contexts[i], contexts[i + 1])
        /\ \A i, j \in 1..Len(results) :
              AfterSearch(Swap(results, i, j), args.source_names).contexts = contexts

----------------------------------------------------------------------------
(* VectorDatabase.query (rag_backend/database.py): the where clause.        *)
(* A title is a sequence of characters; no title is the empty one.          *)

\* The titles of the chunks in the collection, as the extractors stored them.
ChunkTitles == { <<"T", "u">>, <<"t", "u">>, <<"u">> }

\* The titles a caller filters by, the empty one for none.
FilterTitles == { <<>>, <<"t">>, <<"T", "u">>, <<"t", "u">> }

\* The source_names a caller filters by, the empty list for none.
FilterSources == { <<>>, <<"a.pdf">>, <<"a.pdf", "b.docx">> }

\* The chunks a collection can hold, as far as the filter looks at them.
FilterChunks == [source_name : {"a.pdf", "c.txt"}, title : ChunkTitles]

\* The where clause: {"source_name": {"$in": source_names}} if source_names,
\* {"title": {"$eq": title.lower()}} if title, both under "$and", or none.
Where(chunk, source_names, title) ==
    /\ source_names # <<>> =>
          chunk.source_name \in {source_names[k] : k \in 1..Len(source_names)}
    /\ title # <<>> => chunk.title = Lower(title)

\* A caller queries a collection with filters, for more results than it holds.
StoreFilter ==
    /\ phase = "idle"
    /\ \E stored \in UNION {[1..k -> FilterChunks] : k \in 0..MaxBatch} :
       \E source_names \in FilterSources : \E title \in FilterTitles :
         LET ids == [i \in 1..Len(stored) |-> i]
             chosen == SelectSeq(ids, LAMBDA i : Where(stored[i], source_names, title))
         IN
         /\ candidates' = [ids |-> ids, distances |-> [i \in 1..Len(stored) |-> 1],
                           metadatas |-> stored]
         /\ found' = [ids |-> chosen,
                      distances |-> [k \in 1..Len(chosen) |-> 1],
                      metadatas |-> [k \in 1..Len(chosen) |-> stored[chosen[k]]]]
         /\ args' = [NoArgs EXCEPT !.source_names = source_names, !.title = title]
    /\ phase' = "returned"
    /\ method' = "query"
    /\ UNCHANGED <<ivars, relevance_cache, scored, query, results, error,
                   scorer_calls, settings, collab_calls, threads, balanced,
                   contexts>>

NextFilter ==
    \/ StoreFilter
    \/ Return

SpecFilter == Init /\ [][NextFilter]_vars

\* str in str: sub is a run of characters of str.
Contains(str, sub) ==
    \E k \in 0..(Len(str) - Len(sub)) : SubSeq(str, k + 1, k + Len(sub)) = sub

\* C31: the query selects a chunk of the collection exactly if its
\* source_name is one of the source_names given (or none is given) and its
\* title contains the title given, case ignored (or none is given).
C31_FilterSelects ==
    method = "query" =>
        \A i \in 1..Len(candidates.ids) :
            LET chunk == candidates.metadatas[i]
                names == {args.source_names[k] : k \in 1..Len(args.source_names)}
            IN  (\E k \in 1..Len(found.ids) : found.ids[k] = i)
                  <=> /\ args.source_names = <<>> \/ chunk.source_name \in names
                      /\ args.title = <<>>
                            \/ Contains(Lower(chunk.title), Lower(args.title))
----------------------------------------------------------------------------
(* The state records, the overlap of ingestions and the readers of the      *)
(* collection (documents.py, process_and_store_document).                   *)

\* C33: every record get_processing_state gives is well formed: completed
\* comes with no error, a source_name and chunk_count = total_chunks >= 1;
\* error comes with a message; processing comes with no error.
C33_StateRecordWellFormed ==
    \A f \in Files :
        LET state == get_processing_state(f) IN
        /\ state.status = "completed" =>
              /\ state.error = None
              /\ state.source_name = f
              /\ state.chunk_count = state.total_chunks
              /\ state.total_chunks >= 1
        /\ state.status = "error" => state.error # None
        /\ state.status = "processing" => state.error = None

\* The ingestions of a filename that have begun, and the one started last
\* (uploads take the threads in order).
Begun(f) == {w \in Workers : file[w] = f /\ pc[w] \notin {"idle", "begin"}}
StartedLast(f) == CHOOSE w \in Begun(f) : \A v \in Begun(f) : v <= w

\* C34: whatever the overlap of the ingestions of a filename, its record goes
\* from completed or error to processing only in the first step of an
\* ingestion, and when no ingestion of the filename is running any more the
\* record is the one of the ingestion started last.
C34_LastStartedWins ==
    [][\A f \in Files :
        /\ ( /\ get_processing_state(f).status \in {"completed", "error"}
             /\ get_processing_state(f)'.status = "processing" )
              => \E w \in Workers :
                    file[w] = f /\ pc[w] = "begin" /\ pc'[w] = "extract"
        /\ (Begun(f)' # {} /\ ~Busy(f)')
              => processing_states'[f] = StartedLast(f)']_vars

\* The ingestion has sent no write (delete or add) to the collection.
NoWrite(sent) == \A k \in 1..Len(sent) : sent[k].op \notin {"delete", "add"}

\* C35: from its first step to its last, an ingestion that ends in the except
\* clause without having reached its delete (no chunks, a failure of the
\* extraction or of the embedding, a short batch, a failed lookup) never sees
\* the chunks stored for its source change: they are what they were when it
\* started.
C35_EarlyFailureKeepsChunks ==
    [][\A w \in Workers :
        (Active(w) /\ NoWrite(calls[w]) /\ NoWrite(calls'[w]))
            => GetWhere(file[w])' = GetWhere(file[w])]_vars

\* A re-ingestion that got a short batch of embeddings is about to raise,
\* with the chunks of the first ingestion in the collection.
C35_Witness ==
    \E w \in Workers :
        /\ pc[w] = "publish_error"
        /\ wstate[w].error = "index out of range"
        /\ NoWrite(calls[w])
        /\ GetWhere(file[w]) # <<>>

\* C36: with the ingestions of a source run one at a time, the chunks stored
\* for it (which get_document_chunks gives a reader, sorted) change only from
\* a stored set to nothing (the delete) and from nothing to all the chunks of
\* the ingestion that inserts: the reader is given the whole old set, nothing
\* or the whole new set.
C36_ReaderSeesWholeSets ==
    [][\A f \in Files :
        \/ GetWhere(f)' = GetWhere(f)
        \/ GetWhere(f)' = <<>>
        \/ /\ GetWhere(f) = <<>>
           /\ \E w \in Workers :
                /\ file[w] = f
                /\ pc[w] = "add_insert"
                /\ GetWhere(f)' = chunks[w]]_vars

\* A re-ingestion between its delete and its insert: the reader is given
\* nothing.
C36_Witness ==
    \E w, v \in Workers :
        /\ v # w /\ file[v] = file[w] /\ pc[v] = "returned"
        /\ pc[w] = "add_insert"
        /\ \E k \in 1..Len(calls[w]) : calls[w][k].op = "delete"
        /\ get_document_chunks(file[w]) = <<>>

====
